---- MODULE Spec2Model ----
(***************************************************************************)
(* Model of the affection dataset pipeline of chengyubert:                 *)
(*   src/chengyubert/data/dataset/affection.py                             *)
(* dataset construction (span windowing, allowed examples, enlarged        *)
(* candidate set), __getitem__ (example assembly, candidate target         *)
(* resolver) and collate_fn (padding, gather index);                       *)
(*   src/chengyubert/models/modeling_affection.py                          *)
(* span pooling, the latent-vocabulary scorer and the loss functions of    *)
(* forward;                                                                *)
(*   src/preprocess.py                                                     *)
(* the parsers' read_examples, the tags and the instance store of process; *)
(*   src/train_embedding.py                                                *)
(* the start-up checks, the training loop with its checkpoint selection    *)
(* and the result files of validate.                                       *)
(*                                                                         *)
(* Python lists are sequences; Python indices are 0-based, so an index k   *)
(* of a Python list is element k+1 of the sequence.                        *)
(***************************************************************************)
EXTENDS Integers, Sequences, FiniteSets, TLC

VARIABLES
    opts,       \* the option namespace shared by all datasets of the run
    db_dir,     \* the directory of the persisted example store
    filtered,   \* split -> set of labelled idiom ids ({split}.json)
    unlabeled,  \* set of idiom ids of unlabelled.json
    calo_vocab, \* affective lexicon: idiom id -> sequence of records
    ds,         \* split -> constructed dataset object (domain: built splits)
    fetched,    \* instances returned by __getitem__ for the current batch
    batch,      \* <<>> or <<b>>: the batch returned by collate_fn
    err,        \* <<operation, exception>> of the last operation ("none": it returned)
    model,      \* <<>> or <<m>>: the network built by the training script
    outputs,    \* <<>> or <<o>>: what forward returned for the current batch
    prep,       \* <<>> or the state of a preprocessing run (preprocess.process)
    trainer,    \* <<>> or the state of the training script on the saving process
    ranks,      \* rank -> where the process stands in validate (<<>>: no validation)
    files,      \* file name -> rows: the results directory of the validation
    tagged,     \* <<>> or the state of a tagging run of read_examples and process
    net         \* <<>> or <<n>>: a network with the loss objects of its constructor

vars == <<opts, db_dir, filtered, unlabeled, calo_vocab, ds, fetched, batch, err,
          model, outputs, prep, trainer, ranks, files, tagged, net>>

----------------------------------------------------------------------------
(* Bounds of the model *)

MaxL == 10          \* longest stored sentence of the windowing catalogue
MaxTxtLen == 8      \* largest max_txt_len option
DupL == 5           \* longest stored sentence ending in a literal mask token
LexL == 3           \* longest stored sentence of the lexicon runs
BatchL == 2         \* longest stored sentence of the batching runs
MaxBatch == 2       \* largest batch size
HiddenSize == 2     \* config.hidden_size of the encoder
MaxSeed == 1        \* the encoder outputs tried for a batch are 0..MaxSeed
MaxBlanks == 2      \* most blanks of a record of an annotation file
MaxRecords == 2     \* most records of an annotation file
MaxTrainSteps == 3  \* num_train_steps of a training run is 1..MaxTrainSteps
MaxAccum == 2       \* gradient_accumulation_steps is 1..MaxAccum
MaxLoader == 2      \* the train loader yields 1..MaxLoader batches per epoch
MaxValid == 2       \* valid_steps is 1..MaxValid
MaxAcc == 2         \* a validation accuracy is one of the levels 0..MaxAcc
MaxRanks == 2       \* the processes of a validation have ranks 0..MaxRanks-1
MaxRows == 2        \* a process predicts for 1..MaxRows validation instances
MaxTagBlanks == 21  \* a tagged record has 1..MaxTagBlanks blanks
MaxTagRecords == 2  \* an annotation file of the tag numbering has up to MaxTagRecords records
MaxLossBatch == 2   \* a batch of the loss computation has 1..MaxLossBatch examples
MaxLabel == 1       \* a fine-emotion or sentiment target is -100 or one of 0..MaxLabel

(* Program constants *)

IGNORE == -100
cls_token_id == 101
sep_token_id == 102
mask_token_id == 103
pad_token_id == 0
padding_value == 0
NumFineEmotion == 21
NumSentiment == 4
NumOptions == 7
len_idiom_vocab == 8

Splits == {"train", "val", "test"}

COMPOSE == "chengyu-affection-compose-only"
MASKED == "chengyu-affection-compose-only-masked"

----------------------------------------------------------------------------
(* Python built-ins *)

Min(a, b) == IF a <= b THEN a ELSE b
Max(a, b) == IF a >= b THEN a ELSE b

RECURSIVE MaxOfSeq(_)
MaxOfSeq(s) ==
    IF Len(s) = 1 THEN s[1] ELSE Max(s[1], MaxOfSeq(Tail(s)))

\* list(range(a, b)) / torch.arange(a, b)
Range(a, b) == [k \in 1..(IF b > a THEN b - a ELSE 0) |-> a + k - 1]

\* s[a:b] with Python's clamping of the two bounds
NormIdx(k, n) == IF k < 0 THEN Max(k + n, 0) ELSE Min(k, n)
Slice(s, a, b) ==
    LET lo == NormIdx(a, Len(s))
        hi == NormIdx(b, Len(s))
    IN  IF hi > lo THEN SubSeq(s, lo + 1, hi) ELSE <<>>

Contains(s, x) == \E k \in 1..Len(s) : s[k] = x

\* s.index(x): 0-based index of the first occurrence (x must occur)
IndexOf(s, x) ==
    (CHOOSE k \in 1..Len(s) : s[k] = x /\ \A j \in 1..(k - 1) : s[j] # x) - 1

\* [x] * n
Repeat(x, n) == [k \in 1..(IF n > 0 THEN n ELSE 0) |-> x]

\* reduce(operator.add, [l1, l2, ...])
RECURSIVE Concat(_)
Concat(ls) == IF ls = <<>> THEN <<>> ELSE ls[1] \o Concat(Tail(ls))

----------------------------------------------------------------------------
(* Tokenizer (external collaborator) and preprocessing                      *)

\* tokenizer.convert_tokens_to_ids(tokenizer.tokenize(idiom)): idiom id j is
\* given (j mod 3) + 1 sub-tokens, all different from the special ids
TokenizeIdiom(j) == [k \in 1..((j % 3) + 1) |-> 200 + 10 * j + k]

\* tokenize_idioms: idiom id -> its sub-token ids
tokenize_idioms == [j \in 0..(len_idiom_vocab - 1) |-> TokenizeIdiom(j)]

\* preprocess.tokenize + parse_example: before_part + [mask] + after_part,
\* position = index of the first mask id.  nBefore/nAfter are the numbers of
\* text tokens around the blank; dup says that the text itself ends with a
\* literal mask token.
ParseExample(nBefore, nAfter, idiom, dup) ==
    LET before_part == [k \in 1..nBefore |-> 10 + k]
        after_part  == [k \in 1..nAfter |->
                          IF dup /\ k = nAfter THEN mask_token_id
                          ELSE 50 + k]
        input_ids   == before_part \o <<mask_token_id>> \o after_part
    IN  [input_ids |-> input_ids,
         position  |-> IndexOf(input_ids, mask_token_id),
         idiom     |-> idiom,
         options   |-> Range(0, NumOptions)]

\* the example of a record without candidates: options = [], label = -1
ParseUnoptioned(nBefore, nAfter, idiom) ==
    [ParseExample(nBefore, nAfter, idiom, FALSE) EXCEPT !.options = <<>>]

\* a store holding one example for every text of at most maxL tokens, every
\* idiom of the list idioms and, with dups = 2, also the texts ending in a
\* literal mask token
Catalogue(maxL, idioms, dups) ==
    LET side == maxL + 1
        nBefore(q) == q % side
        nAfter(q)  == (q \div side) % side
        idiom(q)   == idioms[((q \div (side * side)) % Len(idioms)) + 1]
        dup(q)     == (q \div (side * side * Len(idioms))) = 1
        cells == SelectSeq([n \in 1..(side * side * Len(idioms) * dups) |-> n - 1],
                           LAMBDA q : /\ nBefore(q) + nAfter(q) + 1 <= maxL
                                      /\ dup(q) => nAfter(q) > 0)
    IN  [t \in 1..Len(cells) |->
            ParseExample(nBefore(cells[t]), nAfter(cells[t]),
                         idiom(cells[t]), dup(cells[t]))]

\* the example stores of the runs: one example for every text and idiom
LexStore == Catalogue(LexL, <<0, 1, 2, 4>>, 1)
ItemStore ==
    Catalogue(MaxL, <<0, 2>>, 1)
      \o SelectSeq(Catalogue(DupL, <<1>>, 2),
                   LAMBDA e : e.input_ids[Len(e.input_ids)] = mask_token_id
                              /\ e.position < Len(e.input_ids) - 1)
BatchStore == Catalogue(BatchL, <<0, 1, 2>>, 1)
OptionStore == <<ParseUnoptioned(1, 1, 7), ParseExample(1, 0, 0, FALSE)>>

\* self.db: the examples stored under a directory, tag t being example t
Lmdb(dir) ==
    CASE dir = "lex" -> LexStore
      [] dir = "item" -> ItemStore
      [] dir = "batch" -> BatchStore
      [] dir = "opt" -> OptionStore

\* reverse_index.json written by preprocess.process: idiom id -> tags
ReverseIndexFile(d) ==
    [k \in {d[t].idiom : t \in 1..Len(d)} |->
        {t \in 1..Len(d) : d[t].idiom = k}]

----------------------------------------------------------------------------
(* ChengyuCALODataset                                                       *)

\* Window with the two margins of the symmetric cut swapped
Window_SwappedMargins(input_ids, position, max_txt_len) ==
    LET half_length == max_txt_len \div 2
    IN  IF position < half_length THEN
            <<0, Min(Len(input_ids) + 1, max_txt_len - 2)>>
        ELSE IF Len(input_ids) - position < half_length THEN
            <<Max(0, Len(input_ids) - (max_txt_len - 2)), Len(input_ids)>>
        ELSE
            <<position - half_length, position + (half_length - 2)>>

\* Window without the two reserved slots in the tail cut
Window_NoReserve(input_ids, position, max_txt_len) ==
    LET half_length == max_txt_len \div 2
    IN  IF position < half_length THEN
            <<0, Min(Len(input_ids) + 1, max_txt_len)>>
        ELSE IF Len(input_ids) - position < half_length THEN
            <<Max(0, Len(input_ids) - (max_txt_len - 2)), Len(input_ids)>>
        ELSE
            <<position - (half_length - 2), position + half_length>>

\* Window testing the head cut before the tail cut
Window_HeadFirst(input_ids, position, max_txt_len) ==
    LET half_length == max_txt_len \div 2
    IN  IF Len(input_ids) - position < half_length THEN
            <<Max(0, Len(input_ids) - (max_txt_len - 2)), Len(input_ids)>>
        ELSE IF position < half_length THEN
            <<0, Min(Len(input_ids) + 1, max_txt_len - 2)>>
        ELSE
            <<position - (half_length - 2), position + half_length>>

\* the window [st, ed) of get_ids_and_lens for one example
Window(input_ids, position, max_txt_len) ==
    LET half_length == max_txt_len \div 2
    IN  IF position < half_length THEN                 \* cut at tail
            <<0, Min(Len(input_ids) + 1, max_txt_len - 2)>>
        ELSE IF Len(input_ids) - position < half_length THEN  \* cut at head
            <<Max(0, Len(input_ids) - (max_txt_len - 2)), Len(input_ids)>>
        ELSE                                           \* cut at both sides
            <<position - (half_length - 2), position + half_length>>

\* assert ed - st <= self.max_txt_len - 2
WindowAssert(w, max_txt_len) == w[2] - w[1] <= max_txt_len - 2

\* Annotated without the test of the split's labelled list
Annotated_LexiconOnly(idiom, calo, filt) == idiom \in DOMAIN calo

\* idiom in self.calo_vocab and idiom in self.filtered
Annotated(idiom, calo, filt) == idiom \in DOMAIN calo /\ idiom \in filt

\* a Counter over the annotated examples: value -> number of occurrences
CounterOf(vals) ==
    [c \in {vals[k] : k \in 1..Len(vals)} |->
        Cardinality({k \in 1..Len(vals) : vals[k] = c})]

\* get_ids_and_lens: loop over id2len, keeping the allowed examples
get_ids_and_lens(d, allowed, calo, filt, max_txt_len) ==
    LET ids   == SelectSeq([t \in 1..Len(d) |-> t], LAMBDA t : t \in allowed)
        st_ed == [k \in 1..Len(ids) |->
                    Window(d[ids[k]].input_ids, d[ids[k]].position, max_txt_len)]
        ann   == SelectSeq(ids, LAMBDA t : Annotated(d[t].idiom, calo, filt))
    IN  [ok    |-> \A k \in 1..Len(ids) : WindowAssert(st_ed[k], max_txt_len),
         ids   |-> ids,
         st_ed |-> st_ed,
         lens  |-> [k \in 1..Len(ids) |-> st_ed[k][2] - st_ed[k][1] + 1],
         fine_emotion_counter |->
             CounterOf([k \in 1..Len(ann) |-> calo[d[ann[k]].idiom][1].fine_emotion]),
         sentiment_counter |->
             CounterOf([k \in 1..Len(ann) |-> calo[d[ann[k]].idiom][1].sentiment])]

\* get_label_weights dividing by the number of counted examples
get_label_weights_ByTotal(counter, num_classes) ==
    LET RECURSIVE Sum(_)
        Sum(S) == IF S = {} THEN 0
                  ELSE LET c == CHOOSE x \in S : TRUE
                       IN  counter[c] + Sum(S \ {c})
    IN  [i \in 0..(num_classes - 1) |->
            [num |-> IF i \in DOMAIN counter THEN counter[i] ELSE 0,
             den |-> Sum(DOMAIN counter)]]

\* get_label_weights: counter[i] / max_num, kept as the fraction num/den
get_label_weights(counter, num_classes) ==
    LET max_num == CHOOSE m \in {counter[c] : c \in DOMAIN counter} :
                      \A c \in DOMAIN counter : counter[c] <= m
    IN  [i \in 0..(num_classes - 1) |->
            [num |-> IF i \in DOMAIN counter THEN counter[i] ELSE 0,
             den |-> max_num]]

\* _decide_target
decide_target(idiom, idx, calo, filt) ==
    IF Annotated(idiom, calo, filt)
    THEN LET affections == calo[idiom][1]
         IN  <<idx, affections.coarse_emotion, affections.fine_emotion,
               affections.sentiment, affections.strength>>
    ELSE <<idx, IGNORE, IGNORE, IGNORE, 0>>

\* get_allowed_examples of the two dataset classes: the kept reverse index
get_reverse_index(cls, split, use_unlabeled, rfile, filt, unlab) ==
    LET keep(k) ==
          /\ k < len_idiom_vocab
          /\ IF cls = MASKED /\ split = "train" /\ use_unlabeled
             THEN k \in filt \/ k \in unlab
             ELSE k \in filt
    IN  [k \in {j \in DOMAIN rfile : keep(j)} |-> rfile[k]]

get_allowed(reverse_index) ==
    UNION {reverse_index[k] : k \in DOMAIN reverse_index}

\* [i for i in range(len_idiom_vocab) if i in container]
ListIn(container) ==
    SelectSeq(Range(0, len_idiom_vocab), LAMBDA i : i \in container)

\* enlarged_candidates_of with every split computing its own list
enlarged_candidates_of_PerSplit(split, cls, use_unlabeled, filt, reverse_index, shared) ==
    IF cls = MASKED /\ use_unlabeled /\ split = "train"
    THEN ListIn(DOMAIN reverse_index)
    ELSE ListIn(filt)

\* the enlarged candidate set of a dataset: computed by the train split's
\* constructor, taken from opts (shared = <<list>>) by the other splits
enlarged_candidates_of(split, cls, use_unlabeled, filt, reverse_index, shared) ==
    IF split = "train"
    THEN IF cls = MASKED /\ use_unlabeled
         THEN ListIn(DOMAIN reverse_index)
         ELSE ListIn(filt)
    ELSE shared[1]

----------------------------------------------------------------------------
(* __getitem__                                                              *)

\* self.idiom_ids of the example store: the ids of the idiom vocabulary
idiom_ids == 0..(len_idiom_vocab - 1)

\* the sequences of k distinct elements of S
RECURSIVE Arrangements(_, _)
Arrangements(S, k) ==
    IF k = 0 THEN {<<>>}
    ELSE UNION {{<<x>> \o r : r \in Arrangements(S \ {x}, k - 1)} : x \in S}

\* random.sample(self.idiom_ids, k=7): the lists of 7 distinct ids, one for
\* every set of entries and every last entry; the order of the entries before
\* the last, which the shuffle that follows discards, is kept ascending
Samples ==
    UNION {{SelectSeq(Range(0, len_idiom_vocab), LAMBDA i : i \in S \ {last})
              \o <<last>> : last \in S} :
             S \in {T \in SUBSET idiom_ids : Cardinality(T) = NumOptions}}

\* if idiom not in options: options[-1] = idiom
ForceIdiom(smp, idiom) ==
    IF Contains(smp, idiom) THEN smp ELSE [smp EXCEPT ![Len(smp)] = idiom]

\* random.shuffle(options): every order of the entries of the list, which
\* are distinct
Shuffles(elems, k) == Arrangements(elems, k)

\* OptionOutcomes without the insertion of the true idiom
OptionOutcomes_NoForce(options, idiom) ==
    IF Len(options) # 0 THEN {options}
    ELSE UNION {Shuffles(elems, NumOptions) :
                  elems \in {{smp[k] : k \in 1..NumOptions} : smp \in Samples}}

\* every list the option filling of __getitem__ can return; a shuffle of a
\* list depends on its entries only, so the lists are shuffled once per set
\* of entries
OptionOutcomes(options, idiom) ==
    IF Len(options) # 0 THEN {options}
    ELSE UNION {Shuffles(elems, NumOptions) :
                  elems \in {{ForceIdiom(smp, idiom)[k] : k \in 1..NumOptions} :
                               smp \in Samples}}

\* candidate_index returning the idiom id of a member instead of its position
candidate_index_IdiomId(idiom, enlarged_candidates) ==
    IF Contains(enlarged_candidates, idiom) THEN idiom ELSE IGNORE

\* the candidate index of an idiom id
candidate_index(idiom, enlarged_candidates) ==
    IF Contains(enlarged_candidates, idiom)
    THEN IndexOf(enlarged_candidates, idiom)
    ELSE IGNORE

\* [cls] + context_ids[:idiom_start] + middle + context_ids[idiom_start+1:] + [sep]
InContext(context_ids, idiom_start, middle) ==
    Concat(<< <<cls_token_id>>,
              Slice(context_ids, 0, idiom_start),
              middle,
              Slice(context_ids, idiom_start + 1, Len(context_ids)),
              <<sep_token_id>> >>)

\* [cls] + idiom_input_ids + [sep]
NoContext(idiom_input_ids) ==
    Concat(<< <<cls_token_id>>, idiom_input_ids, <<sep_token_id>> >>)

\* ComposeItem reporting the slice-local index as the span start
ComposeItem_LocalIndex(context_ids, idiom_start, idiom_input_ids, use_context) ==
    LET input_ids == IF use_context
                     THEN InContext(context_ids, idiom_start, idiom_input_ids)
                     ELSE NoContext(idiom_input_ids)
        position  == IF use_context THEN idiom_start ELSE 1
    IN  [input_ids      |-> <<input_ids>>,
         token_type_ids |-> Repeat(0, Len(input_ids)),
         attention_mask |-> <<Repeat(1, Len(input_ids))>>,
         position       |-> <<position>>,
         checked_len    |-> Len(input_ids)]

\* ChengyuCALOComposeOnlyDataset.__getitem__ after the mask marker was found
ComposeItem(context_ids, idiom_start, idiom_input_ids, use_context) ==
    LET input_ids == IF use_context
                     THEN InContext(context_ids, idiom_start, idiom_input_ids)
                     ELSE NoContext(idiom_input_ids)
        position  == IF use_context THEN idiom_start + 1 ELSE 1
    IN  [input_ids      |-> <<input_ids>>,
         token_type_ids |-> Repeat(0, Len(input_ids)),
         attention_mask |-> <<Repeat(1, Len(input_ids))>>,
         position       |-> <<position>>,
         checked_len    |-> Len(input_ids)]

\* MaskedItem whose literal attention mask attends to the padded tail
MaskedItem_AttendPadding(context_ids, idiom_start, idiom_input_ids, use_context) ==
    LET idiom_len == Len(idiom_input_ids)
        idiom_masked_input_ids == Repeat(mask_token_id, idiom_len)
        input_masked_ids ==
            InContext(context_ids, idiom_start, idiom_masked_input_ids)
        short == NoContext(idiom_input_ids)
        input_ids_len == Len(short)
        input_ids ==
            IF use_context
            THEN InContext(context_ids, idiom_start, idiom_input_ids)
            ELSE short \o Repeat(pad_token_id,
                                 Len(input_masked_ids) - input_ids_len)
        attention_mask_literal ==
            IF use_context
            THEN Repeat(1, Len(input_ids))
            ELSE Repeat(1, Len(input_ids))
        position == IF use_context
                    THEN <<idiom_start + 1, idiom_start + 1>>
                    ELSE <<1, idiom_start + 1>>
    IN  [input_ids      |-> <<input_ids, input_masked_ids>>,
         token_type_ids |-> Repeat(0, Len(input_ids)),
         attention_mask |-> <<attention_mask_literal,
                              Repeat(1, Len(input_ids))>>,
         position       |-> position,
         checked_len    |-> Len(input_ids)]

\* MaskedItem reporting the visible span start for both channels
MaskedItem_OneOffset(context_ids, idiom_start, idiom_input_ids, use_context) ==
    LET idiom_len == Len(idiom_input_ids)
        idiom_masked_input_ids == Repeat(mask_token_id, idiom_len)
        input_masked_ids ==
            InContext(context_ids, idiom_start, idiom_masked_input_ids)
        short == NoContext(idiom_input_ids)
        input_ids_len == Len(short)
        input_ids ==
            IF use_context
            THEN InContext(context_ids, idiom_start, idiom_input_ids)
            ELSE short \o Repeat(pad_token_id,
                                 Len(input_masked_ids) - input_ids_len)
        attention_mask_literal ==
            IF use_context
            THEN Repeat(1, Len(input_ids))
            ELSE Repeat(1, input_ids_len)
                   \o Repeat(0, Len(input_masked_ids) - input_ids_len)
        position == IF use_context
                    THEN <<idiom_start + 1, idiom_start + 1>>
                    ELSE <<1, 1>>
    IN  [input_ids      |-> <<input_ids, input_masked_ids>>,
         token_type_ids |-> Repeat(0, Len(input_ids)),
         attention_mask |-> <<attention_mask_literal,
                              Repeat(1, Len(input_ids))>>,
         position       |-> position,
         checked_len    |-> Len(input_ids)]

\* ChengyuCALOComposeOnlyMaskedDataset.__getitem__ after the marker was found
MaskedItem(context_ids, idiom_start, idiom_input_ids, use_context) ==
    LET idiom_len == Len(idiom_input_ids)
        idiom_masked_input_ids == Repeat(mask_token_id, idiom_len)
        input_masked_ids ==
            InContext(context_ids, idiom_start, idiom_masked_input_ids)
        short == NoContext(idiom_input_ids)
        input_ids_len == Len(short)
        input_ids ==
            IF use_context
            THEN InContext(context_ids, idiom_start, idiom_input_ids)
            ELSE short \o Repeat(pad_token_id,
                                 Len(input_masked_ids) - input_ids_len)
        attention_mask_literal ==
            IF use_context
            THEN Repeat(1, Len(input_ids))
            ELSE Repeat(1, input_ids_len)
                   \o Repeat(0, Len(input_masked_ids) - input_ids_len)
        position == IF use_context
                    THEN <<idiom_start + 1, idiom_start + 1>>
                    ELSE <<1, idiom_start + 1>>
    IN  [input_ids      |-> <<input_ids, input_masked_ids>>,
         token_type_ids |-> Repeat(0, Len(input_ids)),
         attention_mask |-> <<attention_mask_literal,
                              Repeat(1, Len(input_ids))>>,
         position       |-> position,
         checked_len    |-> Len(input_ids)]

\* context_of without the truncation to the window
context_of_Untrimmed(input_ids, w) == input_ids

\* example['input_ids'][st: ed]
context_of(input_ids, w) == Slice(input_ids, w[1], w[2])

\* assert len(input_ids) <= self.max_txt_len + idiom_len
LengthAssert(checked_len, max_txt_len, idiom_len) ==
    checked_len <= max_txt_len + idiom_len

\* getitem placing the span at the start of a slice without marker
getitem_GuessSpan(cls, d, i, options, store, calo, max_txt_len, use_context) ==
    LET id_         == d.ids[i + 1]
        w           == d.st_ed[i + 1]
        example     == store[id_]
        idiom       == example.idiom
        context_ids == context_of(example.input_ids, w)
        idiom_start == IF Contains(context_ids, mask_token_id)
                       THEN IndexOf(context_ids, mask_token_id) ELSE 0
        idiom_input_ids == tokenize_idioms[idiom]
        idiom_len   == Len(idiom_input_ids)
        idx         == candidate_index(idiom, d.enlarged_candidates)
        target      == decide_target(idiom, idx, calo, d.filtered)
        a == IF cls = MASKED
             THEN MaskedItem(context_ids, idiom_start, idiom_input_ids, use_context)
             ELSE ComposeItem(context_ids, idiom_start, idiom_input_ids, use_context)
    IN  IF ~LengthAssert(a.checked_len, max_txt_len, idiom_len)
        THEN [raised |-> "AssertionError"]
        ELSE [raised         |-> "none",
              split          |-> d.split,
              i              |-> i,
              input_ids      |-> a.input_ids,
              token_type_ids |-> a.token_type_ids,
              attention_mask |-> a.attention_mask,
              position       |-> a.position,
              idiom_len      |-> idiom_len,
              options        |-> options,
              target         |-> target]

\* __getitem__(i) of dataset d with the option list the sampling returned:
\* the exception it raises ("none" when it returns) and the instance
getitem(cls, d, i, options, store, calo, max_txt_len, use_context) ==
    LET id_         == d.ids[i + 1]
        w           == d.st_ed[i + 1]
        example     == store[id_]
        idiom       == example.idiom
        context_ids == context_of(example.input_ids, w)
        idiom_start == IndexOf(context_ids, mask_token_id)
        idiom_input_ids == tokenize_idioms[idiom]
        idiom_len   == Len(idiom_input_ids)
        idx         == candidate_index(idiom, d.enlarged_candidates)
        target      == decide_target(idiom, idx, calo, d.filtered)
        a == IF cls = MASKED
             THEN MaskedItem(context_ids, idiom_start, idiom_input_ids, use_context)
             ELSE ComposeItem(context_ids, idiom_start, idiom_input_ids, use_context)
    IN  IF ~Contains(context_ids, mask_token_id)
        THEN [raised |-> "ValueError"]
        ELSE IF ~LengthAssert(a.checked_len, max_txt_len, idiom_len)
        THEN [raised |-> "AssertionError"]
        ELSE [raised         |-> "none",
              split          |-> d.split,
              i              |-> i,
              input_ids      |-> a.input_ids,
              token_type_ids |-> a.token_type_ids,
              attention_mask |-> a.attention_mask,
              position       |-> a.position,
              idiom_len      |-> idiom_len,
              options        |-> options,
              target         |-> target]

----------------------------------------------------------------------------
(* collate_fn                                                               *)

\* pad_sequence filling the rows with the last entry of each sequence
pad_sequence_RepeatLast(seqs) ==
    LET S == MaxOfSeq([n \in 1..Len(seqs) |-> Len(seqs[n])])
    IN  [n \in 1..Len(seqs) |->
            [k \in 1..S |-> IF k <= Len(seqs[n]) THEN seqs[n][k]
                            ELSE seqs[n][Len(seqs[n])]]]

\* pad_sequence(seqs, batch_first=True, padding_value=0)
pad_sequence(seqs) ==
    LET S == MaxOfSeq([n \in 1..Len(seqs) |-> Len(seqs[n])])
    IN  [n \in 1..Len(seqs) |->
            [k \in 1..S |-> IF k <= Len(seqs[n]) THEN seqs[n][k]
                            ELSE padding_value]]

\* row.data[:w] = torch.arange(p, p + w): the first w columns are overwritten
FillRow(row, p, w) ==
    [j \in 1..Len(row) |-> IF j <= w THEN Range(p, p + w)[j] ELSE row[j]]

\* gather_index_of with the span offsets counted without the start marker
gather_index_of_Unshifted(positions, widths) ==
    LET width_max == MaxOfSeq(widths)
    IN  [n \in 1..Len(widths) |->
            FillRow(Range(0, width_max), positions[n] - 1, widths[n])]

\* gather_index_of starting from an all-zero tensor
gather_index_of_ZeroFill(positions, widths) ==
    LET width_max == MaxOfSeq(widths)
    IN  [n \in 1..Len(widths) |->
            FillRow(Repeat(0, width_max), positions[n], widths[n])]

\* the gather index of one channel: arange(0, width_max) repeated for each
\* instance, then the span offsets written over the first w columns
gather_index_of(positions, widths) ==
    LET width_max == MaxOfSeq(widths)
    IN  [n \in 1..Len(widths) |->
            FillRow(Range(0, width_max), positions[n], widths[n])]

\* torch.tensor(list of lists) needs lists of one length
Rectangular(rows) == \A n \in 1..Len(rows) : Len(rows[n]) = Len(rows[1])

\* ChengyuCALOComposeOnlyDataset.collate_fn
ComposeCollate(inputs) ==
    LET col(f) == [n \in 1..Len(inputs) |-> inputs[n][f]]
        widths == col("idiom_len")
        positions == [n \in 1..Len(inputs) |-> inputs[n].position[1]]
    IN  [input_ids      |-> pad_sequence([n \in 1..Len(inputs) |->
                                            inputs[n].input_ids[1]]),
         token_type_ids |-> pad_sequence(col("token_type_ids")),
         attention_mask |-> pad_sequence([n \in 1..Len(inputs) |->
                                            inputs[n].attention_mask[1]]),
         gather_index   |-> gather_index_of(positions, widths),
         positions      |-> positions,
         option_ids     |-> col("options"),
         targets        |-> col("target")]

\* MaskedCollate with both gather indices built from the visible channel's
\* span starts
MaskedCollate_SharedIndex(inputs) ==
    LET col(f) == [n \in 1..Len(inputs) |-> inputs[n][f]]
        chan(f, c) == [n \in 1..Len(inputs) |-> inputs[n][f][c]]
        widths == col("idiom_len")
        token_type_ids == pad_sequence(col("token_type_ids"))
    IN  [input_ids      |-> <<pad_sequence(chan("input_ids", 1)),
                              pad_sequence(chan("input_ids", 2))>>,
         token_type_ids |-> <<token_type_ids, token_type_ids>>,
         attention_mask |-> <<pad_sequence(chan("attention_mask", 1)),
                              pad_sequence(chan("attention_mask", 2))>>,
         gather_index   |-> <<gather_index_of(chan("position", 1), widths),
                              gather_index_of(chan("position", 1), widths)>>,
         positions      |-> col("position"),
         option_ids     |-> col("options"),
         targets        |-> col("target")]

\* ChengyuCALOComposeOnlyMaskedDataset.collate_fn before the torch.stack calls
MaskedCollate(inputs) ==
    LET col(f) == [n \in 1..Len(inputs) |-> inputs[n][f]]
        chan(f, c) == [n \in 1..Len(inputs) |-> inputs[n][f][c]]
        widths == col("idiom_len")
        token_type_ids == pad_sequence(col("token_type_ids"))
    IN  [input_ids      |-> <<pad_sequence(chan("input_ids", 1)),
                              pad_sequence(chan("input_ids", 2))>>,
         token_type_ids |-> <<token_type_ids, token_type_ids>>,
         attention_mask |-> <<pad_sequence(chan("attention_mask", 1)),
                              pad_sequence(chan("attention_mask", 2))>>,
         gather_index   |-> <<gather_index_of(chan("position", 1), widths),
                              gather_index_of(chan("position", 2), widths)>>,
         positions      |-> col("position"),
         option_ids     |-> col("options"),
         targets        |-> col("target")]

\* torch.stack([a, b]) needs two tensors of one shape
Stackable(pair) == Len(pair[1][1]) = Len(pair[2][1])

\* collate_fn of the dataset class: the exception raised and the batch
collate_fn(cls, inputs) ==
    LET b == IF cls = MASKED THEN MaskedCollate(inputs)
             ELSE ComposeCollate(inputs)
    IN  IF cls = MASKED /\ ~(Stackable(b.input_ids) /\ Stackable(b.attention_mask))
        THEN [raised |-> "RuntimeError"]
        ELSE IF ~Rectangular(b.option_ids)
        THEN [raised |-> "ValueError"]
        ELSE [raised |-> "none", batch |-> b]

----------------------------------------------------------------------------
(* Operations                                                               *)

\* DatasetCls(split, max_txt_len, opts): ChengyuCALODataset.__init__ followed
\* by the subclass part that settles the enlarged candidate set
Construct(split) ==
    /\ fetched = <<>>
    /\ batch = <<>>
    /\ LET cls   == opts.dataset_cls
           db    == Lmdb(db_dir)
           filt  == filtered[split]
           reverse_index ==
               get_reverse_index(cls, split, opts.use_unlabeled,
                                 ReverseIndexFile(db), filt, unlabeled)
           allowed == get_allowed(reverse_index)
           r     == get_ids_and_lens(db, allowed, calo_vocab, filt, opts.max_txt_len)
           cands == enlarged_candidates_of(split, cls, opts.use_unlabeled, filt,
                                           reverse_index, opts.enlarged_candidates)
           obj   == [split    |-> split,
                     filtered |-> filt,
                     reverse_index |-> reverse_index,
                     ids      |-> r.ids,
                     st_ed    |-> r.st_ed,
                     lens     |-> r.lens,
                     weights  |-> IF split = "train"
                                  THEN <<get_label_weights(r.fine_emotion_counter,
                                                           NumFineEmotion),
                                         get_label_weights(r.sentiment_counter,
                                                           NumSentiment)>>
                                  ELSE <<>>,
                     enlarged_candidates |-> cands]
           raised == IF ~r.ok THEN "AssertionError"
                     ELSE IF split = "train" /\ DOMAIN r.fine_emotion_counter = {}
                     THEN "IndexError"
                     ELSE IF split # "train" /\ opts.enlarged_candidates = <<>>
                     THEN "AttributeError"
                     ELSE "none"
       IN  /\ err' = <<"__init__", raised>>
           /\ IF raised = "none"
              THEN /\ ds' = [s \in DOMAIN ds \cup {split} |->
                               IF s = split THEN obj ELSE ds[s]]
                   /\ opts' = IF split = "train"
                              THEN [opts EXCEPT !.enlarged_candidates = <<cands>>]
                              ELSE opts
              ELSE UNCHANGED <<ds, opts>>
           /\ UNCHANGED <<db_dir, filtered, unlabeled, calo_vocab, fetched, batch,
                        model, outputs, prep, trainer, ranks,
                   files, tagged, net>>

\* the loader of a split asks the dataset for instance i of the next batch
GetItem(split, i) ==
    /\ split \in DOMAIN ds
    /\ i \in 0..(Len(ds[split].ids) - 1)
    /\ batch = <<>>
    /\ Len(fetched) < opts.batch_size
    /\ \A n \in 1..Len(fetched) : fetched[n].split = split
    /\ \E options \in OptionOutcomes(Lmdb(db_dir)[ds[split].ids[i + 1]].options,
                                     Lmdb(db_dir)[ds[split].ids[i + 1]].idiom) :
         LET r == getitem(opts.dataset_cls, ds[split], i, options, Lmdb(db_dir),
                          calo_vocab, opts.max_txt_len, opts.use_context)
         IN  /\ err' = <<"__getitem__", r.raised>>
             /\ fetched' = IF r.raised = "none" THEN Append(fetched, r)
                           ELSE fetched
    /\ UNCHANGED <<opts, db_dir, filtered, unlabeled, calo_vocab, ds, batch,
                   model, outputs, prep, trainer, ranks,
                   files, tagged, net>>

\* the loader hands the fetched instances to collate_fn
Collate ==
    /\ fetched # <<>>
    /\ batch = <<>>
    /\ LET r == collate_fn(opts.dataset_cls, fetched)
       IN  /\ err' = <<"collate_fn", r.raised>>
           /\ batch' = IF r.raised = "none" THEN <<r.batch>> ELSE batch
           /\ fetched' = IF r.raised = "none" THEN fetched ELSE <<>>
    /\ UNCHANGED <<opts, db_dir, filtered, unlabeled, calo_vocab, ds,
                   model, outputs, prep, trainer, ranks,
                   files, tagged, net>>

\* the consumer's loop moves on: the batch and its instances are dropped
DiscardBatch ==
    /\ batch # <<>>
    /\ batch' = <<>>
    /\ fetched' = <<>>
    /\ err' = <<"next", "none">>
    /\ UNCHANGED <<opts, db_dir, filtered, unlabeled, calo_vocab, ds,
                   model, outputs, prep, trainer, ranks,
                   files, tagged, net>>

Next ==
    \/ \E split \in Splits : Construct(split)
    \/ \E split \in Splits, i \in 0..(Len(Lmdb(db_dir)) - 1) : GetItem(split, i)
    \/ Collate
    \/ DiscardBatch

----------------------------------------------------------------------------
(* modeling_affection.py: the networks                                      *)

POOL == "affection-max-pooling"
POOL_MASKED == "affection-max-pooling-masked"
LATENT == "affection-max-pooling-masked-latent-idiom"

\* the models registered for a dataset class: one channel or two
ModelsOf(cls) == IF cls = MASKED THEN {POOL_MASKED, LATENT} ELSE {POOL}

\* self.bert(input_ids, ...)[0]: the encoder is a black box giving every
\* token of every row a vector of HiddenSize numbers; seed picks one
\* such output
bert(seed, input_ids) ==
    [n \in 1..Len(input_ids) |->
        [k \in 1..Len(input_ids[n]) |->
            [h \in 1..HiddenSize |->
                (((seed + 1) * (3 * k + 5 * n + 7 * h) + input_ids[n][k]) % 11) - 5]]]

\* the weight of nn.Embedding(len_idiom_vocab, hidden_size): one row per id
idiom_embedding_weight ==
    [id \in 0..(len_idiom_vocab - 1) |-> [h \in 1..HiddenSize |-> (id + 1) ^ h]]

\* build_model with the buffer always holding the whole vocabulary
build_model_FullVocabulary(name, o) ==
    IF name = LATENT
    THEN [model_name |-> name,
          enlarged_candidates |-> Range(0, len_idiom_vocab),
          idiom_embedding |-> idiom_embedding_weight]
    ELSE [model_name |-> name]

\* __init__ of the model classes: the latent-idiom model registers the
\* buffer enlarged_candidates and the idiom embedding
build_model(name, o) ==
    IF name = LATENT
    THEN [model_name |-> name,
          enlarged_candidates |->
              IF o.enlarged_candidates # <<>> THEN o.enlarged_candidates[1]
              ELSE Range(0, len_idiom_vocab),
          idiom_embedding |-> idiom_embedding_weight]
    ELSE [model_name |-> name]

\* torch.gather(encoded, dim=1, index) with index = gather_index expanded
\* along the hidden dimension: out[n][j][h] = encoded[n][index[n][j]][h]
torch_gather(encoded, gather_index) ==
    [n \in 1..Len(gather_index) |->
        [j \in 1..Len(gather_index[n]) |->
            [h \in 1..HiddenSize |-> encoded[n][gather_index[n][j] + 1][h]]]]

\* torch.gather raises when an index is outside the sequence axis
GatherInRange(encoded, gather_index) ==
    \A n \in 1..Len(gather_index) : \A j \in 1..Len(gather_index[n]) :
        gather_index[n][j] >= 0 /\ gather_index[n][j] < Len(encoded[n])

\* MaxPool keeping the first gathered token only
MaxPool_FirstColumn(states) ==
    [n \in 1..Len(states) |-> [h \in 1..HiddenSize |-> states[n][1][h]]]

\* idiom_states.max(dim=1)[0]: the maximum over the gathered tokens
MaxPool(states) ==
    [n \in 1..Len(states) |->
        [h \in 1..HiddenSize |->
            CHOOSE v \in {states[n][j][h] : j \in 1..Len(states[n])} :
                \A j \in 1..Len(states[n]) : states[n][j][h] <= v]]

\* the sum over d of u[d] * v[d]
RECURSIVE DotUpTo(_, _, _)
DotUpTo(u, v, d) == IF d = 0 THEN 0 ELSE u[d] * v[d] + DotUpTo(u, v, d - 1)

\* vocab(blank_states): logits = einsum('bd,nd->bn') of the blank states and
\* the embedding rows of the ids of the buffer (the attention state, a
\* softmax-weighted sum of the rows, is not part of the model)
vocab(m, blank_states) ==
    LET idiom_embeddings ==
          [k \in 1..Len(m.enlarged_candidates) |->
              m.idiom_embedding[m.enlarged_candidates[k]]]
    IN  [b \in 1..Len(blank_states) |->
            [k \in 1..Len(idiom_embeddings) |->
                DotUpTo(blank_states[b], idiom_embeddings[k], HiddenSize)]]

\* forward up to the pooled span states and the vocabulary logits: the
\* exception raised and the tensors computed
forward(m, b, seed) ==
    IF m.model_name = POOL
    THEN LET encoded_context == bert(seed, b.input_ids)
         IN  IF ~GatherInRange(encoded_context, b.gather_index)
             THEN [raised |-> "RuntimeError"]
             ELSE [raised |-> "none",
                   encoded |-> <<encoded_context>>,
                   composed_states |->
                       <<MaxPool(torch_gather(encoded_context, b.gather_index))>>]
    ELSE LET batch_size == Len(b.input_ids[1])
             encoded_outputs == bert(seed, b.input_ids[1] \o b.input_ids[2])
             encoded_context == SubSeq(encoded_outputs, 1, batch_size)
             encoded_context_masked ==
                 SubSeq(encoded_outputs, batch_size + 1, 2 * batch_size)
             composed_states ==
                 MaxPool(torch_gather(encoded_context, b.gather_index[1]))
             composed_states_masked ==
                 MaxPool(torch_gather(encoded_context_masked, b.gather_index[2]))
         IN  IF ~(GatherInRange(encoded_context, b.gather_index[1])
                  /\ GatherInRange(encoded_context_masked, b.gather_index[2]))
             THEN [raised |-> "RuntimeError"]
             ELSE [raised |-> "none",
                   encoded |-> <<encoded_context, encoded_context_masked>>,
                   composed_states |-> <<composed_states, composed_states_masked>>,
                   over_logits |-> IF m.model_name = LATENT
                                   THEN <<vocab(m, composed_states_masked)>>
                                   ELSE <<>>]

\* create_dataloaders: the datasets are constructed before the model
LoadData(split) == model = <<>> /\ Construct(split)

\* build_model(opts), called once create_dataloaders has returned the loaders
\* of the splits, the train dataset having settled the candidates
BuildModel ==
    /\ DOMAIN ds = Splits
    /\ model = <<>>
    /\ \E name \in ModelsOf(opts.dataset_cls) :
          model' = <<build_model(name, opts)>>
    /\ err' = <<"build_model", "none">>
    /\ UNCHANGED <<opts, db_dir, filtered, unlabeled, calo_vocab, ds, fetched,
                   batch, outputs, prep, trainer, ranks,
                   files, tagged, net>>

\* the loaders are iterated once the model is built
Fetch(split, i) == model # <<>> /\ GetItem(split, i)

\* model(**batch): one encoder output is drawn for the batch
Forward ==
    /\ batch # <<>>
    /\ outputs = <<>>
    /\ \E seed \in 0..MaxSeed :
          LET r == forward(model[1], batch[1], seed)
          IN  /\ err' = <<"forward", r.raised>>
              /\ outputs' = IF r.raised = "none" THEN <<r>> ELSE <<>>
    /\ UNCHANGED <<opts, db_dir, filtered, unlabeled, calo_vocab, ds, fetched,
                   batch, model, prep, trainer, ranks,
                   files, tagged, net>>

\* the loop takes the next batch: the batch and its outputs are dropped
NextBatch ==
    /\ outputs # <<>>
    /\ batch' = <<>>
    /\ fetched' = <<>>
    /\ outputs' = <<>>
    /\ err' = <<"next", "none">>
    /\ UNCHANGED <<opts, db_dir, filtered, unlabeled, calo_vocab, ds, model, prep, trainer, ranks,
                   files, tagged, net>>

NextForward ==
    \/ \E split \in Splits : LoadData(split)
    \/ BuildModel
    \/ \E split \in Splits, i \in 0..(Len(Lmdb(db_dir)) - 1) : Fetch(split, i)
    \/ Collate
    \/ Forward
    \/ NextBatch

----------------------------------------------------------------------------
(* preprocess.py: the parsers                                               *)

CHID == "ChidParser"
AFFECTION == "ChidAffectionParser"
COMPETITION == "ChidCompetitionParser"
Parsers == {CHID, AFFECTION, COMPETITION}

\* the candidate lists of the records: 6, 7, 7 and 8 idioms
CandidateLists == {Range(0, 6), Range(0, 7), Range(1, 8), Range(0, 8)}

\* the idioms the blanks of the records stand for
TruthIdioms == {0, 7}

SeqsUpTo(S, n) == UNION {[1..k -> S] : k \in 1..n}

\* the records of a ChID-style file: the idioms of the blanks and, when the
\* key 'candidates' is present, one candidate list per blank
ChidRecords ==
    {[has_candidates |-> FALSE, groundTruth |-> g, candidates |-> <<>>] :
        g \in SeqsUpTo(TruthIdioms, MaxBlanks)}
    \cup {r \in [has_candidates : {TRUE},
                  groundTruth : SeqsUpTo(TruthIdioms, MaxBlanks),
                  candidates : SeqsUpTo(CandidateLists, MaxBlanks)] :
             Len(r.candidates) = Len(r.groundTruth)}

\* the records of the competition files: one candidate list per record and,
\* from the answer file, the label of each of its blanks
CompetitionRecords ==
    [candidates : CandidateLists, answers : SeqsUpTo({0, 5}, MaxBlanks)]

RecordsOf(parser) ==
    IF parser = COMPETITION THEN CompetitionRecords ELSE ChidRecords

\* if 'candidates' not in data: options, label = [], -1
\* else: options = data['candidates'][i]; assert len(options) == 7;
\*       label = options.index(idiom)
OptionCheck(data, i, idiom) ==
    IF ~data.has_candidates
    THEN [raised |-> "none", options |-> <<>>, label |-> -1]
    ELSE IF Len(data.candidates[i + 1]) # 7
         THEN [raised |-> "AssertionError"]
         ELSE IF ~Contains(data.candidates[i + 1], idiom)
              THEN [raised |-> "ValueError"]
              ELSE [raised |-> "none", options |-> data.candidates[i + 1],
                    label |-> IndexOf(data.candidates[i + 1], idiom)]

\* ChidAffectionParser.read_examples: the blanks whose idiom is not labelled
\* for the split (or, for train, unlabelled) are passed over
Selected(parser, split, idiom) ==
    parser = AFFECTION =>
       IF split = "train" THEN idiom \in filtered[split] \/ idiom \in unlabeled
       ELSE idiom \in filtered[split]

\* blank i (0-based) of record idx: the exception raised and the examples
\* yielded (none or one)
ReadBlank(parser, split, idx, data, i) ==
    IF parser = COMPETITION
    THEN IF data.answers[i + 1] >= Len(data.candidates)
         THEN [raised |-> "IndexError", yielded |-> <<>>]
         ELSE [raised |-> "none",
               yielded |-> << [idx     |-> idx,
                               tag     |-> idx * 20 + i,
                               idiom   |-> data.candidates[data.answers[i + 1] + 1],
                               options |-> data.candidates,
                               label   |-> data.answers[i + 1]] >>]
    ELSE LET idiom == data.groundTruth[i + 1]
             c     == OptionCheck(data, i, idiom)
         IN  IF ~Selected(parser, split, idiom)
             THEN [raised |-> "none", yielded |-> <<>>]
             ELSE IF c.raised # "none"
             THEN [raised |-> c.raised, yielded |-> <<>>]
             ELSE [raised |-> "none",
                   yielded |-> << [idx     |-> idx * 20 + i,
                                   tag     |-> idx * 20 + i,
                                   idiom   |-> idiom,
                                   options |-> c.options,
                                   label   |-> c.label] >>]

\* the number of blanks of a record
Blanks(parser, data) ==
    IF parser = COMPETITION THEN Len(data.answers) ELSE Len(data.groundTruth)

\* the loop over the blanks of one record, from blank i on: it stops at the
\* first exception, the examples yielded before it are kept
RECURSIVE ReadFrom(_, _, _, _, _)
ReadFrom(parser, split, idx, data, i) ==
    IF i >= Blanks(parser, data) THEN [raised |-> "none", yielded |-> <<>>]
    ELSE LET b == ReadBlank(parser, split, idx, data, i)
         IN  IF b.raised # "none" THEN b
             ELSE LET rest == ReadFrom(parser, split, idx, data, i + 1)
                  IN  [raised |-> rest.raised,
                       yielded |-> b.yielded \o rest.yielded]

\* process(): the next record of the file is read and the examples it yields
\* are written to the store; an exception ends the run
ReadRecord ==
    /\ prep # <<>>
    /\ prep.raised = "none"
    /\ Len(prep.records) < MaxRecords
    /\ \E data \in RecordsOf(prep.parser) :
          LET r == ReadFrom(prep.parser, prep.split, Len(prep.records), data, 0)
          IN  /\ prep' = [prep EXCEPT !.records = Append(@, data),
                                      !.db = @ \o r.yielded,
                                      !.raised = r.raised]
              /\ err' = <<"read_examples", r.raised>>
    /\ UNCHANGED <<opts, db_dir, filtered, unlabeled, calo_vocab, ds, fetched,
                   batch, model, outputs, trainer, ranks,
                   files, tagged, net>>

NextPreprocess == ReadRecord

----------------------------------------------------------------------------
(* Initial states                                                           *)

\* record n (0-based) of the lexicon entry of idiom j
CaloRecord(j, n) ==
    [coarse_emotion |-> (j + n) % 7,
     fine_emotion   |-> (3 * j + 5 * n) % NumFineEmotion,
     sentiment      |-> (j + n) % NumSentiment,
     strength       |-> 1 + 2 * ((j + n) % 5)]

\* calo_process: the lexicon of the idioms in dom, two records per idiom
CaloVocab(dom) == [j \in dom |-> <<CaloRecord(j, 0), CaloRecord(j, 1)>>]

Options(clss, lens, ctxs, unls, bs) ==
    {[dataset_cls |-> c, max_txt_len |-> m, use_context |-> u,
      use_unlabeled |-> n, batch_size |-> bs, enlarged_candidates |-> <<>>] :
        c \in clss, m \in lens, u \in ctxs, n \in unls}

InitWith(os, stores, filts, unlabs, calos) ==
    /\ opts \in os
    /\ db_dir \in stores
    /\ filtered \in filts
    /\ unlabeled \in unlabs
    /\ calo_vocab \in calos
    /\ ds = <<>>
    /\ fetched = <<>>
    /\ batch = <<>>
    /\ err = <<"start", "none">>
    /\ model = <<>>
    /\ outputs = <<>>
    /\ prep = <<>>
    /\ trainer = <<>>
    /\ ranks = <<>>
    /\ files = <<>>
    /\ tagged = <<>>
    /\ net = <<>>

\* labelled idioms per split: a fixed val/test list and any train list
Lexicons ==
    {[split \in Splits |-> IF split = "train" THEN tr
                           ELSE IF split = "val" THEN va ELSE {2}] :
        tr \in SUBSET {0, 1, 2}, va \in {{1}, {0, 2, 3}}}

\* the run of a small store under every lexicon
Init ==
    InitWith(Options({COMPOSE, MASKED}, {MaxTxtLen}, BOOLEAN, BOOLEAN, 1),
             {"lex"},
             Lexicons, {{}, {4}}, {CaloVocab({0, 1}), CaloVocab({1, 2, 4})})

Spec == Init /\ [][Next]_vars

\* every stored sentence up to MaxL tokens under every max_txt_len
InitItem ==
    InitWith(Options({COMPOSE, MASKED}, 0..MaxTxtLen, BOOLEAN, {FALSE}, 1),
             {"item"},
             {[split \in Splits |-> IF split = "train" THEN {0, 1, 2}
                                    ELSE IF split = "val" THEN {1, 3} ELSE {}]},
             {{}}, {CaloVocab({0, 1})})

SpecItem == InitItem /\ [][Next]_vars

\* batches of up to MaxBatch instances of a small store
InitBatch ==
    InitWith(Options({COMPOSE, MASKED}, {4}, BOOLEAN, {FALSE}, MaxBatch),
             {"batch"},
             {[split \in Splits |-> IF split = "train" THEN {0, 1, 2}
                                    ELSE IF split = "val" THEN {1} ELSE {}]},
             {{}}, {CaloVocab({0, 1})})

SpecBatch == InitBatch /\ [][Next]_vars

\* a store whose val example was written without candidates
InitOptions ==
    InitWith(Options({COMPOSE}, {MaxTxtLen}, {TRUE}, {FALSE}, 1),
             {"opt"},
             {[split \in Splits |-> IF split = "train" THEN {0}
                                    ELSE IF split = "val" THEN {7} ELSE {}]},
             {{}}, {CaloVocab({0, 1})})

SpecOptions == InitOptions /\ [][Next]_vars

\* batches of a small store run through the networks; the train list of
\* labelled idioms starts at idiom 1, so that a candidate index differs from
\* the idiom id
InitForward ==
    InitWith(Options({COMPOSE, MASKED}, {4}, BOOLEAN, {FALSE}, MaxBatch),
             {"batch"},
             {[split \in Splits |-> IF split = "train" THEN {1, 2}
                                    ELSE IF split = "val" THEN {0, 2} ELSE {}]},
             {{}}, {CaloVocab({0, 1})})

SpecForward == InitForward /\ [][NextForward]_vars

\* a preprocessing run of one parser over a file of up to MaxRecords records
InitPreprocess ==
    /\ opts \in Options({COMPOSE}, {MaxTxtLen}, {TRUE}, {FALSE}, 1)
    /\ db_dir = "lex"
    /\ filtered = [split \in Splits |-> {0}]
    /\ unlabeled \in {{}, {7}}
    /\ calo_vocab = CaloVocab({0, 1})
    /\ ds = <<>>
    /\ fetched = <<>>
    /\ batch = <<>>
    /\ err = <<"start", "none">>
    /\ model = <<>>
    /\ outputs = <<>>
    /\ prep \in [parser : Parsers, split : {"train", "val"}, records : {<<>>},
                  db : {<<>>}, raised : {"none"}]
    /\ trainer = <<>>
    /\ ranks = <<>>
    /\ files = <<>>
    /\ tagged = <<>>
    /\ net = <<>>

SpecPreprocess == InitPreprocess /\ [][NextPreprocess]_vars

----------------------------------------------------------------------------
(* train_embedding.py: __main__, main and train on the process of rank 0   *)

\* the states of args.output_dir at startup
DirStates == {"absent", "no_ckpt", "empty_ckpt", "full_ckpt"}

Modes == {"train", "eval", "infer"}

\* --num_bb, the default of the static number of bounding boxes
num_bb == 36

\* the levels of val/acc a validation run can report
Accs == 0..MaxAcc

\* os.listdir(f'{output_dir}/ckpt'): the exception raised and whether the
\* list has entries
listdir_ckpt(odir) ==
    IF odir \in {"absent", "no_ckpt"}
    THEN [raised |-> "FileNotFoundError", entries |-> FALSE]
    ELSE [raised |-> "none", entries |-> odir = "full_ckpt"]

\* __main__: if exists(output_dir) and os.listdir(output_dir/ckpt):
\*               if mode == 'train': raise ValueError
\*           assert num_bb + max_txt_len + 2 <= 512   (conf_th is not -1)
\* the exception startup ends in ("none": main is called)
startup(odir, mode, max_txt_len) ==
    IF odir # "absent" /\ listdir_ckpt(odir).raised # "none"
    THEN listdir_ckpt(odir).raised
    ELSE IF odir # "absent" /\ listdir_ckpt(odir).entries /\ mode = "train"
    THEN "ValueError"
    ELSE IF num_bb + max_txt_len + 2 > 512 THEN "AssertionError"
    ELSE "none"

\* the local variables of train() before the loop: global_step = 0,
\* best_ckpt = 0, best_eval = 0; optimizer.zero_grad(); optimizer.step()
train_begin(t) ==
    [t EXCEPT !.pc = "train", !.step = 0, !.global_step = 0,
              !.best_ckpt = 0, !.best_eval = 0,
              !.evals = <<>>, !.saved = {},
              !.unsynced = FALSE, !.backward_reduced = TRUE,
              !.applied_unsynced = FALSE]

\* train_step with the gradients all-reduced after every backward pass
train_step_ReduceAlways(t, acc) ==
    LET delay_unscale == (t.step + 1) % t.gas # 0
        unsynced == FALSE
        steps == (t.step + 1) % t.gas = 0
        global_step == IF steps THEN t.global_step + 1 ELSE t.global_step
        validates == steps /\ global_step % t.valid_steps = 0
        improved == validates /\ acc > t.best_eval
    IN  [t EXCEPT
           !.step = @ + 1,
           !.global_step = global_step,
           !.backward_reduced = TRUE,
           !.applied_unsynced = @ \/ (steps /\ unsynced),
           !.unsynced = unsynced /\ ~steps,
           !.evals = IF validates THEN Append(@, <<global_step, acc>>) ELSE @,
           !.best_ckpt = IF improved THEN global_step ELSE @,
           !.best_eval = IF improved THEN acc ELSE @,
           !.saved = IF validates THEN @ \cup {global_step} ELSE @,
           !.pc = IF global_step >= t.num_train_steps THEN "returned" ELSE @]

\* one iteration of the loop over the train loader, acc being the val/acc of
\* the validation if one runs.  backward() adds the gradients of the batch to
\* the local ones; if not delay_unscale they are all-reduced; at the end of
\* an accumulation group global_step grows, the optimizer steps and the
\* gradients are zeroed; every valid_steps steps the model is validated,
\* best_ckpt and best_eval are updated and the checkpoint is saved; the loop
\* is left once global_step has reached num_train_steps.
\*   backward_reduced: the last backward pass was followed by an all-reduce
\*   unsynced: the local gradients hold a part that was not all-reduced
\*   applied_unsynced: an optimizer step has applied such gradients
train_step(t, acc) ==
    LET delay_unscale == (t.step + 1) % t.gas # 0
        unsynced == delay_unscale
        steps == (t.step + 1) % t.gas = 0
        global_step == IF steps THEN t.global_step + 1 ELSE t.global_step
        validates == steps /\ global_step % t.valid_steps = 0
        improved == validates /\ acc > t.best_eval
    IN  [t EXCEPT
           !.step = @ + 1,
           !.global_step = global_step,
           !.backward_reduced = ~delay_unscale,
           !.applied_unsynced = @ \/ (steps /\ unsynced),
           !.unsynced = unsynced /\ ~steps,
           !.evals = IF validates THEN Append(@, <<global_step, acc>>) ELSE @,
           !.best_ckpt = IF improved THEN global_step ELSE @,
           !.best_eval = IF improved THEN acc ELSE @,
           !.saved = IF validates THEN @ \cup {global_step} ELSE @,
           !.pc = IF global_step >= t.num_train_steps THEN "returned" ELSE @]

\* __main__ up to the call of main
Startup ==
    /\ trainer # <<>>
    /\ trainer.pc = "__main__"
    /\ LET raised == startup(trainer.odir, trainer.mode, opts.max_txt_len)
       IN  /\ trainer' = [trainer EXCEPT !.pc = IF raised = "none" THEN "main"
                                                ELSE "raised"]
           /\ err' = <<"__main__", raised>>
    /\ UNCHANGED <<opts, db_dir, filtered, unlabeled, calo_vocab, ds, fetched,
                   batch, model, outputs, prep, ranks, files, tagged, net>>

\* main in train mode calls train, which runs up to its loop
TrainBegin ==
    /\ trainer # <<>>
    /\ trainer.pc = "main"
    /\ trainer.mode = "train"
    /\ trainer' = train_begin(trainer)
    /\ err' = <<"train", "none">>
    /\ UNCHANGED <<opts, db_dir, filtered, unlabeled, calo_vocab, ds, fetched,
                   batch, model, outputs, prep, ranks, files, tagged, net>>

\* the next batch of the train loader is processed
MicroBatch ==
    /\ trainer # <<>>
    /\ trainer.pc = "train"
    /\ trainer.step < trainer.loader_len
    /\ \E acc \in Accs : trainer' = train_step(trainer, acc)
    /\ err' = <<"train", "none">>
    /\ UNCHANGED <<opts, db_dir, filtered, unlabeled, calo_vocab, ds, fetched,
                   batch, model, outputs, prep, ranks, files, tagged, net>>

\* the train loader is exhausted with global_step below num_train_steps: the
\* while loop starts the next epoch, enumerate counting from 0 again
NextEpoch ==
    /\ trainer # <<>>
    /\ trainer.pc = "train"
    /\ trainer.step = trainer.loader_len
    /\ trainer' = [trainer EXCEPT !.step = 0]
    /\ err' = <<"train", "none">>
    /\ UNCHANGED <<opts, db_dir, filtered, unlabeled, calo_vocab, ds, fetched,
                   batch, model, outputs, prep, ranks, files, tagged, net>>

\* main after train: torch.load of ckpt/model_step_{best_ckpt}.pt, a file
\* that exists when that step was saved
LoadBest ==
    /\ trainer # <<>>
    /\ trainer.pc = "returned"
    /\ LET raised == IF trainer.best_ckpt \in trainer.saved THEN "none"
                     ELSE "FileNotFoundError"
       IN  /\ trainer' = [trainer EXCEPT !.pc = IF raised = "none" THEN "loaded"
                                                ELSE "raised"]
           /\ err' = <<"main", raised>>
    /\ UNCHANGED <<opts, db_dir, filtered, unlabeled, calo_vocab, ds, fetched,
                   batch, model, outputs, prep, ranks, files, tagged, net>>

NextTrain ==
    \/ Startup
    \/ TrainBegin
    \/ MicroBatch
    \/ NextEpoch
    \/ LoadBest

\* a run of the training script: any mode, any state of the output
\* directory, any step counts
InitTrain ==
    /\ opts \in Options({COMPOSE}, {MaxTxtLen}, {TRUE}, {FALSE}, 1)
    /\ db_dir = "lex"
    /\ filtered = [split \in Splits |-> {0}]
    /\ unlabeled = {}
    /\ calo_vocab = CaloVocab({0, 1})
    /\ ds = <<>>
    /\ fetched = <<>>
    /\ batch = <<>>
    /\ err = <<"start", "none">>
    /\ model = <<>>
    /\ outputs = <<>>
    /\ prep = <<>>
    /\ trainer \in [pc : {"__main__"}, mode : Modes, odir : DirStates,
                     num_train_steps : 1..MaxTrainSteps, gas : 1..MaxAccum,
                     valid_steps : 1..MaxValid, loader_len : 1..MaxLoader,
                     step : {0}, global_step : {0}, best_ckpt : {0},
                     best_eval : {0}, evals : {<<>>}, saved : {{}},
                     unsynced : {FALSE}, backward_reduced : {TRUE},
                     applied_unsynced : {FALSE}]
    /\ ranks = <<>>
    /\ files = <<>>
    /\ tagged = <<>>
    /\ net = <<>>

SpecTrain == InitTrain /\ [][NextTrain]_vars

\* the training script keeps running while it can
SpecTrainFair == SpecTrain /\ WF_vars(NextTrain)

----------------------------------------------------------------------------
(* train_embedding.py: the result files of validate                         *)

Ranks == 0..(MaxRanks - 1)

\* {split}_results_{global_step}_rank{r}.csv and {split}_results_{global_step}.csv
RankFile(r) == <<"rank", r>>
CombinedFile == <<"all">>

\* results of the process of rank r: one (id, prediction) row per instance
RowsOf(r, n) == [j \in 1..n |-> <<r, j>>]

\* a row left by an earlier run and the bytes of a hole of a file, both
\* different from every row of this run
OldRow == <<-1, 1>>
Hole == <<-2, 0>>

\* a write of rows through a file object whose position is off: the file is
\* extended with a hole when it ends before off, the rows replace what was
\* stored at their place
WriteAt(content, off, rows) ==
    [k \in 1..Max(Len(content), off + Len(rows)) |->
        IF k > off /\ k <= off + Len(rows) THEN rows[k - off]
        ELSE IF k <= Len(content) THEN content[k]
        ELSE Hole]

\* glob.glob('..._rank*.csv'): the per-rank files of the directory
RankFilesIn(dir) == {f \in DOMAIN dir : f[1] = "rank"}

\* with open(out_file, 'w') as f: the rows of the process are written
WriteResults(r) ==
    /\ ranks # <<>>
    /\ ranks[r].pc = "write"
    /\ files' = [f \in DOMAIN files \cup {RankFile(r)} |->
                    IF f = RankFile(r) THEN RowsOf(r, ranks[r].n) ELSE files[f]]
    /\ ranks' = [ranks EXCEPT ![r].pc = "gather"]
    /\ err' = <<"validate", "none">>
    /\ UNCHANGED <<opts, db_dir, filtered, unlabeled, calo_vocab, ds, fetched,
                   batch, model, outputs, prep, trainer, tagged, net>>

\* all_gather_list(val_loss), (val_mrr), (n_ex): a process goes on when
\* every process has called the gather
Gathered(r) ==
    /\ ranks # <<>>
    /\ ranks[r].pc = "gather"
    /\ \A q \in Ranks : ranks[q].pc # "write"
    /\ ranks' = [ranks EXCEPT ![r].pc = "check"]
    /\ err' = <<"validate", "none">>
    /\ UNCHANGED <<opts, db_dir, filtered, unlabeled, calo_vocab, ds, fetched,
                   batch, model, outputs, prep, trainer, files, tagged, net>>

\* if not os.path.isfile(out_file)
CheckCombined(r) ==
    /\ ranks # <<>>
    /\ ranks[r].pc = "check"
    /\ ranks' = [ranks EXCEPT ![r].pc = IF CombinedFile \in DOMAIN files
                                        THEN "barrier" ELSE "open"]
    /\ err' = <<"validate", "none">>
    /\ UNCHANGED <<opts, db_dir, filtered, unlabeled, calo_vocab, ds, fetched,
                   batch, model, outputs, prep, trainer, files, tagged, net>>

\* with open(out_file, 'wb') as g: the file is created or emptied;
\* glob.glob lists the per-rank files in an arbitrary order
OpenCombined(r) ==
    /\ ranks # <<>>
    /\ ranks[r].pc = "open"
    /\ files' = [f \in DOMAIN files \cup {CombinedFile} |->
                    IF f = CombinedFile THEN <<>> ELSE files[f]]
    /\ \E order \in Arrangements(RankFilesIn(files),
                                 Cardinality(RankFilesIn(files))) :
          ranks' = [ranks EXCEPT ![r].pc = "copy", ![r].todo = order,
                                 ![r].off = 0]
    /\ err' = <<"validate", "none">>
    /\ UNCHANGED <<opts, db_dir, filtered, unlabeled, calo_vocab, ds, fetched,
                   batch, model, outputs, prep, trainer, tagged, net>>

\* shutil.copyfileobj(open(f, 'rb'), g) for the next file of the list
CopyNext(r) ==
    /\ ranks # <<>>
    /\ ranks[r].pc = "copy"
    /\ ranks[r].todo # <<>>
    /\ files' = [files EXCEPT ![CombinedFile] =
                    WriteAt(@, ranks[r].off, files[Head(ranks[r].todo)])]
    /\ ranks' = [ranks EXCEPT ![r].todo = Tail(@),
                              ![r].off = @ + Len(files[Head(ranks[r].todo)])]
    /\ err' = <<"validate", "none">>
    /\ UNCHANGED <<opts, db_dir, filtered, unlabeled, calo_vocab, ds, fetched,
                   batch, model, outputs, prep, trainer, tagged, net>>

\* the with block of the combined file is left
CloseCombined(r) ==
    /\ ranks # <<>>
    /\ ranks[r].pc = "copy"
    /\ ranks[r].todo = <<>>
    /\ ranks' = [ranks EXCEPT ![r].pc = "barrier"]
    /\ err' = <<"validate", "none">>
    /\ UNCHANGED <<opts, db_dir, filtered, unlabeled, calo_vocab, ds, fetched,
                   batch, model, outputs, prep, trainer, files, tagged, net>>

\* sum(all_gather_list(opts.rank)), then judge(out_file, ...) and return
ValidateReturns(r) ==
    /\ ranks # <<>>
    /\ ranks[r].pc = "barrier"
    /\ \A q \in Ranks : ranks[q].pc \in {"barrier", "returned"}
    /\ ranks' = [ranks EXCEPT ![r].pc = "returned"]
    /\ err' = <<"validate", "none">>
    /\ UNCHANGED <<opts, db_dir, filtered, unlabeled, calo_vocab, ds, fetched,
                   batch, model, outputs, prep, trainer, files, tagged, net>>

NextValidate ==
    \E r \in Ranks :
       \/ WriteResults(r)
       \/ Gathered(r)
       \/ CheckCombined(r)
       \/ OpenCombined(r)
       \/ CopyNext(r)
       \/ CloseCombined(r)
       \/ ValidateReturns(r)

\* the processes have predicted; the results directory is empty or holds a
\* combined file of the same split and step written earlier
InitValidate ==
    /\ opts \in Options({COMPOSE}, {MaxTxtLen}, {TRUE}, {FALSE}, 1)
    /\ db_dir = "lex"
    /\ filtered = [split \in Splits |-> {0}]
    /\ unlabeled = {}
    /\ calo_vocab = CaloVocab({0, 1})
    /\ ds = <<>>
    /\ fetched = <<>>
    /\ batch = <<>>
    /\ err = <<"start", "none">>
    /\ model = <<>>
    /\ outputs = <<>>
    /\ prep = <<>>
    /\ trainer = <<>>
    /\ ranks \in [Ranks -> [pc : {"write"}, n : 1..MaxRows, todo : {<<>>},
                            off : {0}]]
    /\ files \in {[f \in {} |-> <<>>],
                  [f \in {CombinedFile} |-> <<OldRow>>]}
    /\ tagged = <<>>
    /\ net = <<>>

SpecValidate == InitValidate /\ [][NextValidate]_vars

----------------------------------------------------------------------------
(* preprocess.py: the tags of the examples and the instance store            *)

\* the decimal digits of n
RECURSIVE Digits(_)
Digits(n) == IF n < 10 THEN <<n>> ELSE Digits(n \div 10) \o <<n % 10>>

\* "#idiom%06d#" % new_tag: the digits are padded with zeros to six places
tag_str(new_tag) ==
    LET d == Digits(new_tag)
    IN  <<"#idiom">> \o [k \in 1..(IF Len(d) < 6 THEN 6 - Len(d) ELSE 0) |-> 0]
                     \o d \o <<"#">>

\* new_tag = idx * 20 + i
new_tag_of(idx, i) == idx * 20 + i

\* the blanks of a record that read_examples yields: all of them for
\* ChidParser, the labelled ones for ChidAffectionParser
Labellings == {"all", "first", "last"}
YieldedBlanks(parser, blanks, labelled) ==
    IF parser = CHID \/ labelled = "all" THEN 0..(blanks - 1)
    ELSE IF labelled = "first" THEN {0}
    ELSE {blanks - 1}

\* the loop of process over the examples of one record: db[ex.tag] = exa
StoreAll(db, idx, is) ==
    [t \in DOMAIN db \cup {tag_str(new_tag_of(idx, i)) : i \in is} |->
        IF \E i \in is : t = tag_str(new_tag_of(idx, i))
        THEN LET last == CHOOSE i \in is :
                            /\ t = tag_str(new_tag_of(idx, i))
                            /\ \A k \in is : t = tag_str(new_tag_of(idx, k))
                                                => k <= i
             IN  <<idx, last>>
        ELSE db[t]]

\* read_examples reads the next record and process stores its examples
ReadTagged ==
    /\ tagged # <<>>
    /\ tagged.pc = "read"
    /\ tagged.idx < MaxTagRecords
    /\ \E blanks \in 1..MaxTagBlanks, labelled \in Labellings :
          LET is == YieldedBlanks(tagged.parser, blanks, labelled)
          IN  tagged' = [tagged EXCEPT
                  !.idx = @ + 1,
                  !.emitted = @ \cup {<<tagged.idx, i>> : i \in is},
                  !.db = StoreAll(@, tagged.idx, is)]
    /\ err' = <<"process", "none">>
    /\ UNCHANGED <<opts, db_dir, filtered, unlabeled, calo_vocab, ds, fetched,
                   batch, model, outputs, prep, trainer, ranks, files, net>>

\* the file is exhausted: assert len(id2len) == len(ans_dict) holds, both
\* being keyed by ex.tag, and process returns id2len
EndOfFile ==
    /\ tagged # <<>>
    /\ tagged.pc = "read"
    /\ tagged.idx >= 1
    /\ tagged' = [tagged EXCEPT !.pc = "returned"]
    /\ err' = <<"process", "none">>
    /\ UNCHANGED <<opts, db_dir, filtered, unlabeled, calo_vocab, ds, fetched,
                   batch, model, outputs, prep, trainer, ranks, files, net>>

NextTag == ReadTagged \/ EndOfFile

InitTag ==
    /\ opts \in Options({COMPOSE}, {MaxTxtLen}, {TRUE}, {FALSE}, 1)
    /\ db_dir = "lex"
    /\ filtered = [split \in Splits |-> {0}]
    /\ unlabeled = {}
    /\ calo_vocab = CaloVocab({0, 1})
    /\ ds = <<>>
    /\ fetched = <<>>
    /\ batch = <<>>
    /\ err = <<"start", "none">>
    /\ model = <<>>
    /\ outputs = <<>>
    /\ prep = <<>>
    /\ trainer = <<>>
    /\ ranks = <<>>
    /\ files = <<>>
    /\ tagged \in [parser : {CHID, AFFECTION}, idx : {0}, emitted : {{}},
                   db : {[t \in {} |-> <<>>]}, pc : {"read"}]
    /\ net = <<>>

SpecTag == InitTag /\ [][NextTag]_vars

----------------------------------------------------------------------------
(* modeling_affection.py: the loss functions of the affection models        *)

GATE == "affection-max-pooling-masked-latent-idiom-with-gate"
AffectionModels == {POOL, POOL_MASKED, LATENT, GATE}

\* the two classes that predict the idiom from the masked channel
PredictsIdiom(name) == name \in {LATENT, GATE}

\* the part of __init__ after the classifiers: the loss attributes set
loss_attributes(use_focal) ==
    IF use_focal THEN {"loss_fct"}
    ELSE {"fine_emotion_loss_fct", "sentiment_loss_fct"}

\* nn.CrossEntropyLoss(reduction='none'): one loss per example, which is
\* zero for the target -100
cross_entropy(column) ==
    [n \in 1..Len(column) |->
        [ignored |-> column[n] = IGNORE, class |-> column[n]]]

\* the end of forward: the exception raised and the tuple returned
affection_forward(name, attrs, compute_loss, targets) ==
    LET col(c) == [n \in 1..Len(targets) |-> targets[n][c]]
    IN  IF ~compute_loss
        THEN [raised |-> "none", losses |-> FALSE, batch_size |-> Len(targets)]
        ELSE IF "fine_emotion_loss_fct" \notin attrs
                \/ "sentiment_loss_fct" \notin attrs
        THEN [raised |-> "AttributeError", losses |-> TRUE,
              batch_size |-> Len(targets)]
        ELSE [raised |-> "none", losses |-> TRUE, batch_size |-> Len(targets),
              over_loss |-> IF PredictsIdiom(name) THEN cross_entropy(col(1))
                            ELSE <<>>,
              fine_emotion_loss |-> cross_entropy(col(3)),
              sentiment_emotion_loss |-> cross_entropy(col(4))]

\* the targets of a batch: (idiom, coarse emotion, fine emotion, sentiment,
\* strength) per example
Labels == {IGNORE} \cup 0..MaxLabel
TargetRows == {<<0, 0, f, t, 1>> : f \in Labels, t \in Labels}
TargetBatches == UNION {[1..k -> TargetRows] : k \in 1..MaxLossBatch}

\* ModelCls.from_pretrained(..., opts=opts)
NetBuild ==
    /\ net # <<>>
    /\ net.pc = "new"
    /\ net' = [net EXCEPT !.pc = "built",
                          !.attrs = loss_attributes(net.use_focal)]
    /\ err' = <<"__init__", "none">>
    /\ UNCHANGED <<opts, db_dir, filtered, unlabeled, calo_vocab, ds, fetched,
                   batch, model, outputs, prep, trainer, ranks, files, tagged>>

\* model(**batch, compute_loss=...)
NetForward ==
    /\ net # <<>>
    /\ net.pc = "built"
    /\ \E compute_loss \in BOOLEAN, targets \in TargetBatches :
          LET r == affection_forward(net.name, net.attrs, compute_loss, targets)
          IN  /\ net' = [net EXCEPT !.pc = "called", !.out = <<r>>]
              /\ err' = <<"forward", r.raised>>
    /\ UNCHANGED <<opts, db_dir, filtered, unlabeled, calo_vocab, ds, fetched,
                   batch, model, outputs, prep, trainer, ranks, files, tagged>>

\* the loop goes on with the next batch when forward returned
NetNext ==
    /\ net # <<>>
    /\ net.pc = "called"
    /\ net.out[1].raised = "none"
    /\ net' = [net EXCEPT !.pc = "built", !.out = <<>>]
    /\ err' = <<"next", "none">>
    /\ UNCHANGED <<opts, db_dir, filtered, unlabeled, calo_vocab, ds, fetched,
                   batch, model, outputs, prep, trainer, ranks, files, tagged>>

NextNet == NetBuild \/ NetForward \/ NetNext

InitNet ==
    /\ opts \in Options({COMPOSE}, {MaxTxtLen}, {TRUE}, {FALSE}, 1)
    /\ db_dir = "lex"
    /\ filtered = [split \in Splits |-> {0}]
    /\ unlabeled = {}
    /\ calo_vocab = CaloVocab({0, 1})
    /\ ds = <<>>
    /\ fetched = <<>>
    /\ batch = <<>>
    /\ err = <<"start", "none">>
    /\ model = <<>>
    /\ outputs = <<>>
    /\ prep = <<>>
    /\ trainer = <<>>
    /\ ranks = <<>>
    /\ files = <<>>
    /\ tagged = <<>>
    /\ net \in [name : AffectionModels, use_focal : BOOLEAN, attrs : {{}},
                pc : {"new"}, out : {<<>>}]

SpecNet == InitNet /\ [][NextNet]_vars

----------------------------------------------------------------------------
(* Properties of span windowing                                             *)

\* the stored example behind entry k (1-based) of dataset d
ExampleOf(d, k) == Lmdb(db_dir)[d.ids[k]]

\* the branch of the window computation an example takes
CutCase(e) ==
    IF e.position < opts.max_txt_len \div 2 THEN "tail"
    ELSE IF Len(e.input_ids) - e.position < opts.max_txt_len \div 2 THEN "head"
    ELSE "both"

\* 0 <= st <= position < ed <= L + 1 for entry k of dataset d
WindowContainsMask(d, k) ==
    LET e == ExampleOf(d, k)
    IN  /\ 0 <= d.st_ed[k][1]
        /\ d.st_ed[k][1] <= e.position
        /\ e.position < d.st_ed[k][2]
        /\ d.st_ed[k][2] <= Len(e.input_ids) + 1

\* C1 as stated: for every max_txt_len the window of every example of every
\* constructed dataset contains the mask position,
\* 0 <= st <= position < ed <= L + 1.
C1_Original ==
    \A s \in DOMAIN ds : \A k \in 1..Len(ds[s].ids) :
        WindowContainsMask(ds[s], k)

\* C1 amended: the window contains the mask position,
\* 0 <= st <= position < ed <= L + 1, exactly when max_txt_len >= 4 or
\* max_txt_len = 3 and position = 0; for smaller budgets it misses the mask.
C1_WindowContainsMask ==
    \A s \in DOMAIN ds : \A k \in 1..Len(ds[s].ids) :
        WindowContainsMask(ds[s], k)
          <=> \/ opts.max_txt_len >= 4
              \/ opts.max_txt_len = 3 /\ ExampleOf(ds[s], k).position = 0

\* a train dataset holding windows of all three branches, the symmetric one
\* cutting the sentence on both sides
C1_Witness ==
    /\ "train" \in DOMAIN ds
    /\ opts.max_txt_len >= 4
    /\ \A c \in {"tail", "head", "both"} :
         \E k \in 1..Len(ds["train"].ids) :
            /\ CutCase(ExampleOf(ds["train"], k)) = c
            /\ Len(ExampleOf(ds["train"], k).input_ids) > opts.max_txt_len
            /\ c = "both" => /\ ds["train"].st_ed[k][1] > 0
                             /\ ds["train"].st_ed[k][2]
                                  < Len(ExampleOf(ds["train"], k).input_ids)

\* C2: in every branch the window satisfies ed - st <= max_txt_len - 2, so the
\* assertion of get_ids_and_lens never fails and every dataset construction
\* gets past it, whatever L, position and max_txt_len are.
C2_WindowBudget ==
    /\ err # <<"__init__", "AssertionError">>
    /\ \A s \in DOMAIN ds : \A k \in 1..Len(ds[s].ids) :
          ds[s].st_ed[k][2] - ds[s].st_ed[k][1] <= opts.max_txt_len - 2

\* a constructed dataset in which each branch produced a window that uses the
\* whole budget of max_txt_len - 2 tokens
C2_Witness ==
    /\ err = <<"__init__", "none">>
    /\ \E s \in DOMAIN ds :
         \A c \in {"tail", "head", "both"} :
            \E k \in 1..Len(ds[s].ids) :
               /\ CutCase(ExampleOf(ds[s], k)) = c
               /\ ds[s].st_ed[k][2] - ds[s].st_ed[k][1] = opts.max_txt_len - 2

\* C3: the length assertion of __getitem__ never fails, and every channel of
\* every instance returned by the compose-only and the masked dataset, with
\* or without context, has at most max_txt_len + idiom_token_length ids.
C3_AssembledLength ==
    /\ err # <<"__getitem__", "AssertionError">>
    /\ \A n \in 1..Len(fetched) : \A c \in 1..Len(fetched[n].input_ids) :
          Len(fetched[n].input_ids[c])
             <= opts.max_txt_len + Len(tokenize_idioms[
                    ExampleOf(ds[fetched[n].split], fetched[n].i + 1).idiom])

\* an instance whose window uses the whole budget: its assembled length is
\* max_txt_len + idiom_token_length - 1, both channels in the masked dataset
C3_Witness ==
    \E n \in 1..Len(fetched) :
       /\ opts.dataset_cls = MASKED
       /\ opts.use_context
       /\ fetched[n].idiom_len = 3
       /\ \A c \in 1..2 :
             Len(fetched[n].input_ids[c]) = opts.max_txt_len + fetched[n].idiom_len - 1

----------------------------------------------------------------------------
(* Properties of example assembly                                           *)

\* the stored example and the window behind a fetched instance
ItemExample(it) == ExampleOf(ds[it.split], it.i + 1)
ItemWindow(it) == ds[it.split].st_ed[it.i + 1]

\* the windowed slice of an instance, read off the stored ids one by one
WindowedIds(it) ==
    LET e  == ItemExample(it)
        st == ItemWindow(it)[1]
        ed == Min(ItemWindow(it)[2], Len(e.input_ids))
    IN  [j \in 1..(ed - st) |-> e.input_ids[st + j]]

\* the slice before and after its first mask marker
MarkerAt(ctx) ==
    CHOOSE m \in 1..Len(ctx) :
        ctx[m] = mask_token_id /\ \A j \in 1..(m - 1) : ctx[j] # mask_token_id
PrefixOf(it) == SubSeq(WindowedIds(it), 1, MarkerAt(WindowedIds(it)) - 1)
SuffixOf(it) ==
    SubSeq(WindowedIds(it), MarkerAt(WindowedIds(it)) + 1, Len(WindowedIds(it)))
IdiomTokensOf(it) == tokenize_idioms[ItemExample(it).idiom]

\* C7: a compose-only instance is [start] + prefix + idiom_tokens + suffix +
\* [separator] with span start 1 + len(prefix) when use_context is true, and
\* [start] + idiom_tokens + [separator] with span start 1 when it is false;
\* in both modes assembled[span_start : span_start + span_length] is
\* idiom_tokens.
C7_ComposeAssembly ==
    \A n \in 1..Len(fetched) :
       opts.dataset_cls = COMPOSE =>
          LET it   == fetched[n]
              ids  == it.input_ids[1]
              toks == IdiomTokensOf(it)
              p    == it.position[1]
          IN  /\ Len(it.input_ids) = 1
              /\ it.idiom_len = Len(toks)
              /\ opts.use_context =>
                    /\ ids = <<cls_token_id>> \o PrefixOf(it) \o toks
                               \o SuffixOf(it) \o <<sep_token_id>>
                    /\ p = 1 + Len(PrefixOf(it))
              /\ ~opts.use_context =>
                    /\ ids = <<cls_token_id>> \o toks \o <<sep_token_id>>
                    /\ p = 1
              /\ SubSeq(ids, p + 1, p + it.idiom_len) = toks

\* a compose-only instance with context whose window was cut on both sides
\* and has tokens before and after the marker
C7_Witness ==
    \E n \in 1..Len(fetched) :
       /\ opts.dataset_cls = COMPOSE
       /\ opts.use_context
       /\ ItemWindow(fetched[n])[1] > 0
       /\ ItemWindow(fetched[n])[2] < Len(ItemExample(fetched[n]).input_ids)
       /\ Len(PrefixOf(fetched[n])) >= 2
       /\ Len(SuffixOf(fetched[n])) >= 2
       /\ fetched[n].idiom_len = 3

\* C8: in a masked-dataset instance the visible ids, the masked ids, the
\* token types and both attention masks have one length; with use_context
\* false the visible channel is [start] + idiom_tokens + [separator] followed
\* by pad ids, and the literal attention mask is 1 on exactly the first
\* idiom_token_length + 2 positions and 0 on the padded tail.
C8_ChannelAlignment ==
    \A n \in 1..Len(fetched) :
       opts.dataset_cls = MASKED =>
          LET it   == fetched[n]
              toks == IdiomTokensOf(it)
              S    == Len(it.input_ids[2])
          IN  /\ Len(it.input_ids[1]) = S
              /\ Len(it.token_type_ids) = S
              /\ Len(it.attention_mask[1]) = S
              /\ Len(it.attention_mask[2]) = S
              /\ ~opts.use_context =>
                    /\ SubSeq(it.input_ids[1], 1, Len(toks) + 2)
                         = <<cls_token_id>> \o toks \o <<sep_token_id>>
                    /\ \A j \in 1..S :
                          /\ j > Len(toks) + 2 => it.input_ids[1][j] = pad_token_id
                          /\ it.attention_mask[1][j]
                               = (IF j <= Len(toks) + 2 THEN 1 ELSE 0)

\* a masked-dataset instance without context whose visible channel was
\* padded by at least two positions
C8_Witness ==
    \E n \in 1..Len(fetched) :
       /\ opts.dataset_cls = MASKED
       /\ ~opts.use_context
       /\ Len(fetched[n].input_ids[1]) >= fetched[n].idiom_len + 4
       /\ fetched[n].attention_mask[1][Len(fetched[n].input_ids[1])] = 0

\* C9: the masked channel is [start] + prefix + idiom_token_length mask ids
\* + suffix + [separator]; its span start is 1 + len(prefix) with and without
\* context, and the span positions of the masked channel hold only mask ids.
C9_MaskedChannel ==
    \A n \in 1..Len(fetched) :
       opts.dataset_cls = MASKED =>
          LET it == fetched[n]
              p  == it.position[2]
          IN  /\ it.input_ids[2]
                   = <<cls_token_id>> \o PrefixOf(it)
                       \o [j \in 1..Len(IdiomTokensOf(it)) |-> mask_token_id]
                       \o SuffixOf(it) \o <<sep_token_id>>
              /\ p = 1 + Len(PrefixOf(it))
              /\ it.idiom_len = Len(IdiomTokensOf(it))
              /\ \A j \in (p + 1)..(p + it.idiom_len) :
                    it.input_ids[2][j] = mask_token_id

\* a masked-dataset instance without context whose marker is preceded by
\* tokens, so that the two channels report different span starts
C9_Witness ==
    \E n \in 1..Len(fetched) :
       /\ opts.dataset_cls = MASKED
       /\ ~opts.use_context
       /\ Len(PrefixOf(fetched[n])) >= 2
       /\ fetched[n].position[1] # fetched[n].position[2]
       /\ fetched[n].idiom_len = 3

----------------------------------------------------------------------------
(* Properties of the batch collator                                         *)

\* the largest span width among the instances of the batch
WidthMax ==
    CHOOSE w \in {fetched[n].idiom_len : n \in 1..Len(fetched)} :
        \A n \in 1..Len(fetched) : fetched[n].idiom_len <= w

\* row n of a gather index built from span starts p: the span offsets on
\* the first width_n columns, column j holding j (0-based) from there on
GatherRowsAsClaimed(g, c) ==
    /\ Len(g) = Len(fetched)
    /\ \A n \in 1..Len(fetched) :
          /\ Len(g[n]) = WidthMax
          /\ \A j \in 0..(WidthMax - 1) :
                g[n][j + 1] = IF j < fetched[n].idiom_len
                              THEN fetched[n].position[c] + j
                              ELSE j

\* C4: with W the largest span width of the batch, row i of gather_index is
\* span_start_i .. span_start_i + width_i - 1 on its first width_i columns
\* and holds j in every column j >= width_i (the 0..W-1 default fill); the
\* masked collator builds both of its gather indices this way.
C4_GatherIndex ==
    batch # <<>> =>
       IF opts.dataset_cls = MASKED
       THEN /\ GatherRowsAsClaimed(batch[1].gather_index[1], 1)
            /\ GatherRowsAsClaimed(batch[1].gather_index[2], 2)
       ELSE GatherRowsAsClaimed(batch[1].gather_index, 1)

\* the batch of the example: span widths [2, 3], row 0 = [s0, s0 + 1, 2] with
\* s0 = 2, row 1 = [s1, s1 + 1, s1 + 2]
C4_Witness ==
    /\ batch # <<>>
    /\ opts.dataset_cls = COMPOSE
    /\ Len(fetched) = 2
    /\ fetched[1].idiom_len = 2
    /\ fetched[2].idiom_len = 3
    /\ batch[1].gather_index[1] = <<2, 3, 2>>
    /\ batch[1].gather_index[2]
         = <<fetched[2].position[1], fetched[2].position[1] + 1,
             fetched[2].position[1] + 2>>

----------------------------------------------------------------------------
(* Properties of the candidate target resolver                              *)

\* enlarged_candidates.index(id) for a member of the list, IGNORE otherwise
ClaimedIndex(id, ec) ==
    IF \E k \in 1..Len(ec) : ec[k] = id
    THEN (CHOOSE k \in 1..Len(ec) :
             ec[k] = id /\ \A j \in 1..(k - 1) : ec[j] # id) - 1
    ELSE -100

\* C5: for an idiom id in the enlarged candidate set the candidate index of
\* the target is enlarged_candidates.index(id) and the list holds that id at
\* the index; for an id outside the set the candidate index is -100.
C5_CandidateRoundTrip ==
    \A n \in 1..Len(fetched) :
       LET id  == ItemExample(fetched[n]).idiom
           ec  == ds[fetched[n].split].enlarged_candidates
           idx == fetched[n].target[1]
       IN  IF id \in {ec[k] : k \in 1..Len(ec)}
           THEN /\ idx \in 0..(Len(ec) - 1)
                /\ ec[idx + 1] = id
                /\ idx = ClaimedIndex(id, ec)
           ELSE idx = -100

\* an instance whose idiom is a member of the set at an index that differs
\* from the idiom id
C5_Witness ==
    \E n \in 1..Len(fetched) :
       /\ fetched[n].target[1] >= 1
       /\ fetched[n].target[1] # ItemExample(fetched[n]).idiom
       /\ ds[fetched[n].split].enlarged_candidates[fetched[n].target[1] + 1]
            = ItemExample(fetched[n]).idiom

\* every dataset other than train's holds train's enlarged candidate set
CandidatesShared ==
    \A s \in DOMAIN ds :
       /\ "train" \in DOMAIN ds
       /\ opts.enlarged_candidates = <<ds["train"].enlarged_candidates>>
       /\ ds[s].enlarged_candidates = ds["train"].enlarged_candidates

\* no operation changes the enlarged candidate set of a constructed dataset
CandidatesFrozen ==
    \A s \in DOMAIN ds :
       /\ s \in DOMAIN ds'
       /\ ds'[s].enlarged_candidates = ds[s].enlarged_candidates

\* C6: the enlarged candidate set is settled by the construction of the train
\* dataset and never changes afterwards; every val/test dataset constructed
\* in the run holds the same ids in the same order as train's, whatever
\* constructions and item accesses take place.
C6_CandidatesFrozen == [](CandidatesShared) /\ [][CandidatesFrozen]_vars

\* val and test datasets constructed after train, labelled lists differing
\* between the splits, and an instance fetched
C6_Witness ==
    /\ DOMAIN ds = Splits
    /\ filtered["val"] # filtered["train"]
    /\ filtered["test"] # filtered["train"]
    /\ ds["train"].enlarged_candidates # <<>>
    /\ fetched # <<>>

\* C10: the target of an idiom that is not in the lexicon or not in the
\* split's labelled list is (idx, -100, -100, -100, 0); the target of an
\* annotated idiom is (idx, coarse_emotion, fine_emotion, sentiment,
\* strength) of its first lexicon record; idx is the candidate index,
\* unchanged, and the split enters only through its labelled list.
C10_DecideTarget ==
    \A n \in 1..Len(fetched) :
       LET it  == fetched[n]
           id  == ItemExample(it).idiom
           idx == ClaimedIndex(id, ds[it.split].enlarged_candidates)
       IN  it.target =
              IF id \in DOMAIN calo_vocab /\ id \in filtered[it.split]
              THEN <<idx, calo_vocab[id][1].coarse_emotion,
                     calo_vocab[id][1].fine_emotion,
                     calo_vocab[id][1].sentiment,
                     calo_vocab[id][1].strength>>
              ELSE <<idx, -100, -100, -100, 0>>

\* an instance of the val split whose idiom is annotated, its first lexicon
\* record differing from the second
C10_Witness ==
    \E n \in 1..Len(fetched) :
       LET id == ItemExample(fetched[n]).idiom
       IN  /\ fetched[n].split = "val"
           /\ id \in DOMAIN calo_vocab
           /\ id \in filtered["val"]
           /\ calo_vocab[id][1] # calo_vocab[id][2]
           /\ fetched[n].target[3] = calo_vocab[id][1].fine_emotion
           /\ fetched[n].target[1] # -100

----------------------------------------------------------------------------
(* Properties of the option filling                                         *)

\* the number of entries of a list equal to x
Occurrences(list, x) == Cardinality({k \in 1..Len(list) : list[k] = x})

\* C11: an instance of a stored example whose options list is empty carries
\* 7 options with the true idiom among them exactly once, whatever the
\* sampling and the shuffle return; a non-empty stored options list is the
\* instance's options list, unchanged.
C11_OptionFilling ==
    \A n \in 1..Len(fetched) :
       LET e == ItemExample(fetched[n])
       IN  IF e.options = <<>>
           THEN /\ Len(fetched[n].options) = 7
                /\ Occurrences(fetched[n].options, e.idiom) = 1
           ELSE fetched[n].options = e.options

\* an instance of an example stored without options whose true idiom stands
\* at the first place after the shuffle, idiom 0 left out by the sampling
C11_Witness ==
    \E n \in 1..Len(fetched) :
       LET e == ItemExample(fetched[n])
       IN  /\ e.options = <<>>
           /\ fetched[n].options[1] = e.idiom
           /\ Occurrences(fetched[n].options, 0) = 0

----------------------------------------------------------------------------
(* Properties of the collators                                              *)

\* the length of the longest instance of the batch
LongestInstance ==
    CHOOSE m \in {Len(fetched[n].token_type_ids) : n \in 1..Len(fetched)} :
        \A n \in 1..Len(fetched) : Len(fetched[n].token_type_ids) <= m

\* a tensor of shape [2, N, S]
ShapedAs(t, N, S) ==
    /\ Len(t) = 2
    /\ \A c \in 1..2 :
          /\ Len(t[c]) = N
          /\ \A n \in 1..N : Len(t[c][n]) = S

\* C12: the masked collator returns a pair of gather indices of W columns,
\* the first holding each instance's visible-channel span offsets and the
\* second its masked-channel span offsets on the first width_i columns;
\* input ids, token types and attention masks are stacked to shape [2, N, S]
\* and no call of the collator ends in the shape error of torch.stack.
C12_MaskedCollate ==
    opts.dataset_cls = MASKED =>
       /\ err # <<"collate_fn", "RuntimeError">>
       /\ batch # <<>> =>
             LET b == batch[1]
                 N == Len(fetched)
             IN  /\ Len(b.gather_index) = 2
                 /\ \A c \in 1..2 :
                       /\ Len(b.gather_index[c]) = N
                       /\ \A n \in 1..N :
                             /\ Len(b.gather_index[c][n]) = WidthMax
                             /\ \A j \in 0..(fetched[n].idiom_len - 1) :
                                   b.gather_index[c][n][j + 1]
                                     = fetched[n].position[c] + j
                 /\ ShapedAs(b.input_ids, N, LongestInstance)
                 /\ ShapedAs(b.token_type_ids, N, LongestInstance)
                 /\ ShapedAs(b.attention_mask, N, LongestInstance)

\* a masked batch of two instances of different lengths whose span starts
\* differ between the channels
C12_Witness ==
    /\ opts.dataset_cls = MASKED
    /\ batch # <<>>
    /\ Len(fetched) = 2
    /\ Len(fetched[1].token_type_ids) # Len(fetched[2].token_type_ids)
    /\ fetched[1].position[1] # fetched[1].position[2]
    /\ batch[1].gather_index[1] # batch[1].gather_index[2]

\* matrix t holds one row of S = LongestInstance entries per instance, row n
\* being the sequence seqs[n] followed by zeros
PaddedRows(t, seqs) ==
    /\ Len(t) = Len(fetched)
    /\ \A n \in 1..Len(fetched) :
          /\ Len(t[n]) = LongestInstance
          /\ \A k \in 1..LongestInstance :
                t[n][k] = IF k <= Len(seqs[n]) THEN seqs[n][k] ELSE 0

\* channel c of field f of the fetched instances
ChannelOf(f, c) == [n \in 1..Len(fetched) |-> fetched[n][f][c]]

\* C13: in every batch the input ids, the token types and the attention
\* masks have one row per instance, each of the length S of the longest
\* instance; row i is instance i's sequence followed by zeros from position
\* len_i on, so the attention mask is 0 on the padding (both collators, both
\* channels of the masked one).
C13_Padding ==
    batch # <<>> =>
       LET b == batch[1]
           types == [n \in 1..Len(fetched) |-> fetched[n].token_type_ids]
       IN  IF opts.dataset_cls = MASKED
           THEN \A c \in 1..2 :
                   /\ PaddedRows(b.input_ids[c], ChannelOf("input_ids", c))
                   /\ PaddedRows(b.token_type_ids[c], types)
                   /\ PaddedRows(b.attention_mask[c],
                                 ChannelOf("attention_mask", c))
           ELSE /\ PaddedRows(b.input_ids, ChannelOf("input_ids", 1))
                /\ PaddedRows(b.token_type_ids, types)
                /\ PaddedRows(b.attention_mask, ChannelOf("attention_mask", 1))

\* a batch of the single-channel collator whose first instance is shorter
\* than the second: its row ends in padding the mask does not attend to
C13_Witness ==
    /\ batch # <<>>
    /\ opts.dataset_cls = COMPOSE
    /\ Len(fetched) = 2
    /\ Len(fetched[1].token_type_ids) < Len(fetched[2].token_type_ids)
    /\ batch[1].input_ids[1][LongestInstance] = 0
    /\ batch[1].attention_mask[1][LongestInstance] = 0
    /\ batch[1].attention_mask[2][LongestInstance] = 1

----------------------------------------------------------------------------
(* The window algorithm case by case                                        *)

\* the window the three-case rule gives a sentence of L tokens
ThreeCaseWindow(L, position, max_txt_len) ==
    LET half == max_txt_len \div 2
        lo   == IF L - (max_txt_len - 2) > 0 THEN L - (max_txt_len - 2) ELSE 0
        hi   == IF L + 1 < max_txt_len - 2 THEN L + 1 ELSE max_txt_len - 2
    IN  IF position < half THEN <<0, hi>>
        ELSE IF L - position < half THEN <<lo, L>>
        ELSE <<position - (half - 2), position + half>>

\* entry k of dataset d is a sentence of L tokens with the blank at position
\* and has the window w
EntryIs(d, k, L, position, w) ==
    /\ Len(ExampleOf(d, k).input_ids) = L
    /\ ExampleOf(d, k).position = position
    /\ d.st_ed[k] = w

\* C14: with half = max_txt_len // 2 the window of every entry is
\* (0, min(L+1, max_txt_len-2)) if position < half, else
\* (max(0, L-(max_txt_len-2)), L) if L - position < half, else
\* (position-(half-2), position+half); with max_txt_len = 8 a sentence of 10
\* tokens has the window (0, 6) for position 2 and (4, 10) for position 8.
C14_ThreeCases ==
    \A s \in DOMAIN ds :
       \A k \in 1..Len(ds[s].ids) :
          /\ ds[s].st_ed[k]
               = ThreeCaseWindow(Len(ExampleOf(ds[s], k).input_ids),
                                 ExampleOf(ds[s], k).position,
                                 opts.max_txt_len)
          /\ opts.max_txt_len = 8 /\ Len(ExampleOf(ds[s], k).input_ids) = 10
               => /\ ExampleOf(ds[s], k).position = 2
                     => ds[s].st_ed[k] = <<0, 6>>
                  /\ ExampleOf(ds[s], k).position = 8
                     => ds[s].st_ed[k] = <<4, 10>>

\* the two scenarios, a sentence cut at both sides and a short sentence whose
\* blank is near both ends, all in one train dataset
C14_Witness ==
    /\ "train" \in DOMAIN ds
    /\ opts.max_txt_len = 8
    /\ \E k \in 1..Len(ds["train"].ids) : EntryIs(ds["train"], k, 10, 2, <<0, 6>>)
    /\ \E k \in 1..Len(ds["train"].ids) : EntryIs(ds["train"], k, 10, 8, <<4, 10>>)
    /\ \E k \in 1..Len(ds["train"].ids) : EntryIs(ds["train"], k, 10, 5, <<3, 9>>)
    /\ \E k \in 1..Len(ds["train"].ids) : EntryIs(ds["train"], k, 3, 1, <<0, 4>>)

----------------------------------------------------------------------------
(* The mask marker of the windowed slice                                    *)

\* the windowed slice of entry k (1-based) of dataset d
SliceOf(d, k) ==
    LET e  == ExampleOf(d, k)
        ed == Min(d.st_ed[k][2], Len(e.input_ids))
    IN  [j \in 1..(ed - d.st_ed[k][1]) |-> e.input_ids[d.st_ed[k][1] + j]]

HasMarker(ctx) == \E m \in 1..Len(ctx) : ctx[m] = mask_token_id

\* every instance was built from a slice holding the marker, its span placed
\* at the first marker of the slice
SpanAtFirstMarker ==
    \A n \in 1..Len(fetched) :
       LET it  == fetched[n]
           ctx == SliceOf(ds[it.split], it.i + 1)
       IN  /\ HasMarker(ctx)
           /\ opts.dataset_cls = MASKED => it.position[2] = MarkerAt(ctx)
           /\ opts.dataset_cls = COMPOSE /\ opts.use_context
                 => it.position[1] = MarkerAt(ctx)

\* the entries of the constructed datasets whose slice holds no marker
MarkerlessEntries ==
    {<<s, k>> \in UNION {{s} \X (1..Len(ds[s].ids)) : s \in DOMAIN ds} :
        ~HasMarker(SliceOf(ds[s], k))}

AllEntries == UNION {{s} \X (1..Len(ds[s].ids)) : s \in DOMAIN ds}

\* a call of __getitem__ either returns an instance or ends in an error and
\* returns none; it ends in the error of list.index only on an entry whose
\* slice holds no marker, and always when no slice holds one
MissingMarkerFails ==
    err'[1] = "__getitem__" /\ err' # err
       => /\ fetched' = IF err'[2] = "none" THEN fetched' ELSE fetched
          /\ err'[2] = "none" => Len(fetched') = Len(fetched) + 1
          /\ err'[2] = "ValueError" => MarkerlessEntries # {}
          /\ MarkerlessEntries = AllEntries => err'[2] = "ValueError"

\* C19: __getitem__ on an entry whose windowed slice holds no mask marker
\* ends in an error and returns no instance, so no instance is ever built
\* without a marker; when the slice holds the marker the span index is the
\* index of the first marker of the slice.
C19_MissingMarker == [](SpanAtFirstMarker) /\ [][MissingMarkerFails]_vars

\* a call of __getitem__ on a slice without marker has ended in the error,
\* other entries of the dataset having slices with one and with two markers
C19_Witness ==
    /\ err = <<"__getitem__", "ValueError">>
    /\ fetched = <<>>
    /\ MarkerlessEntries # {}
    /\ \E e \in AllEntries \ MarkerlessEntries :
          Occurrences(SliceOf(ds[e[1]], e[2]), mask_token_id) = 1

----------------------------------------------------------------------------
(* Properties of the class weights                                          *)

\* the number of entries of dataset d whose idiom is in the lexicon and in
\* the split's labelled list, its first lexicon record giving class c
LabelCount(d, field, c) ==
    Cardinality({k \in 1..Len(d.ids) :
                   /\ ExampleOf(d, k).idiom \in DOMAIN calo_vocab
                   /\ ExampleOf(d, k).idiom \in filtered[d.split]
                   /\ calo_vocab[ExampleOf(d, k).idiom][1][field] = c})

\* the weights w of the classes 0..n-1 are count / max_count
WeightsAsClaimed(w, d, field, n) ==
    /\ DOMAIN w = 0..(n - 1)
    /\ \A c \in 0..(n - 1) :
          /\ w[c].num = LabelCount(d, field, c)
          /\ w[c].den > 0
          /\ w[c].den = w[0].den
          /\ 0 <= w[c].num /\ w[c].num <= w[c].den
    /\ \E c \in 0..(n - 1) : w[c].num = w[c].den

\* C18: weight[c] = count[c] / max_count for every class c of the train
\* dataset, count[c] being the number of allowed examples whose idiom is
\* annotated with class c and max_count the largest count: every weight lies
\* in [0, 1], the most frequent class has weight 1, an unseen class weight 0.
\* The weights are those the constructor of the train dataset has left.
C18_LabelWeights ==
    "train" \in DOMAIN ds /\ err[1] = "__init__" =>
       /\ WeightsAsClaimed(ds["train"].weights[1], ds["train"],
                           "fine_emotion", 21)
       /\ WeightsAsClaimed(ds["train"].weights[2], ds["train"],
                           "sentiment", 4)

\* a train dataset with a most frequent class, a rarer class and unseen ones
C18_Witness ==
    /\ "train" \in DOMAIN ds
    /\ err = <<"__init__", "none">>
    /\ \E a, b, c \in 0..20 :
          LET w == ds["train"].weights[1]
          IN  /\ w[a].num = w[a].den
              /\ 0 < w[b].num /\ w[b].num < w[b].den
              /\ w[c].num = 0
              /\ LabelCount(ds["train"], "fine_emotion", b) > 0

\* weight[a] <= weight[b], the weights being fractions of positive
\* denominators
WeightLeq(wa, wb) == wa.num * wb.den <= wb.num * wa.den

\* C17: the class weights are inverse-frequency: of two classes the one
\* counted more often has the weight that is not larger.
C17_InverseFrequency ==
    "train" \in DOMAIN ds =>
       /\ \A a, b \in 0..20 :
             LabelCount(ds["train"], "fine_emotion", a)
                > LabelCount(ds["train"], "fine_emotion", b)
               => WeightLeq(ds["train"].weights[1][a], ds["train"].weights[1][b])
       /\ \A a, b \in 0..3 :
             LabelCount(ds["train"], "sentiment", a)
                > LabelCount(ds["train"], "sentiment", b)
               => WeightLeq(ds["train"].weights[2][a], ds["train"].weights[2][b])

----------------------------------------------------------------------------
(* Properties of the forward pass                                           *)

\* pooled has one vector of HiddenSize numbers per instance, entry h of row i
\* being the largest hidden[i][index[i][j]][h] over the columns j of the index
PooledAsClaimed(pooled, hidden, index) ==
    /\ Len(pooled) = Len(fetched)
    /\ \A i \in 1..Len(pooled) :
          /\ DOMAIN pooled[i] = 1..HiddenSize
          /\ \A h \in 1..HiddenSize :
                /\ \E j \in 1..WidthMax :
                      pooled[i][h] = hidden[i][index[i][j] + 1][h]
                /\ \A j \in 1..WidthMax :
                      hidden[i][index[i][j] + 1][h] <= pooled[i][h]

\* C15: the pooled value of batch row i and hidden dimension h is the maximum
\* over the columns j in 0..W-1 of hidden[i][gather_index[i][j]][h], one
\* vector per row; the two-channel models pool each channel with its own
\* gather index over its own hidden states.
C15_SpanPooling ==
    outputs # <<>> =>
       IF opts.dataset_cls = MASKED
       THEN /\ Len(outputs[1].composed_states) = 2
            /\ \A c \in 1..2 :
                  PooledAsClaimed(outputs[1].composed_states[c],
                                  outputs[1].encoded[c],
                                  batch[1].gather_index[c])
       ELSE PooledAsClaimed(outputs[1].composed_states[1],
                            outputs[1].encoded[1], batch[1].gather_index)

\* a two-channel batch of two instances with spans of several tokens: the
\* maximum of a row is not at the first token of its span and the channels
\* are gathered at different places and pool to different vectors
C15_Witness ==
    /\ outputs # <<>>
    /\ opts.dataset_cls = MASKED
    /\ Len(fetched) = 2
    /\ WidthMax >= 2
    /\ batch[1].gather_index[1] # batch[1].gather_index[2]
    /\ outputs[1].composed_states[1] # outputs[1].composed_states[2]
    /\ \E i \in 1..2, h \in 1..HiddenSize :
          outputs[1].composed_states[2][i][h]
            > outputs[1].encoded[2][i][batch[1].gather_index[2][i][1] + 1][h]

\* C16: the logits of vocab() have one column per member of the enlarged
\* candidate set of the datasets, column k being the dot product of the blank
\* vector with the embedding row of the idiom enlarged_candidates[k]; every
\* candidate index of a target other than -100 is a column number and the
\* column is that of the instance's own idiom.
C16_VocabAlignment ==
    outputs # <<>> /\ model[1].model_name = LATENT =>
       LET logits == outputs[1].over_logits[1]
           blank  == outputs[1].composed_states[2]
           ec     == ds["train"].enlarged_candidates
           row(id) == model[1].idiom_embedding[id]
       IN  /\ Len(logits) = Len(fetched)
           /\ \A b \in 1..Len(logits) :
                 /\ Len(logits[b]) = Len(ec)
                 /\ \A k \in 1..Len(ec) :
                       logits[b][k] = DotUpTo(blank[b], row(ec[k]), HiddenSize)
           /\ \A n \in 1..Len(fetched) :
                 fetched[n].target[1] # -100 =>
                    /\ 0 <= fetched[n].target[1]
                    /\ fetched[n].target[1] < Len(ec)
                    /\ ec[fetched[n].target[1] + 1] = ItemExample(fetched[n]).idiom
                    /\ logits[n][fetched[n].target[1] + 1]
                         = DotUpTo(blank[n], row(ItemExample(fetched[n]).idiom),
                                   HiddenSize)

\* a val batch scored by the latent-idiom model: one instance whose candidate
\* index differs from its idiom id, one whose idiom is outside the set
C16_Witness ==
    /\ outputs # <<>>
    /\ model[1].model_name = LATENT
    /\ Len(fetched) = 2
    /\ fetched[1].target[1] >= 0
    /\ fetched[1].target[1] # ItemExample(fetched[1]).idiom
    /\ fetched[2].target[1] = -100
    /\ \E k \in 1..Len(outputs[1].over_logits[1][1]) :
          outputs[1].over_logits[1][1][k] # 0

----------------------------------------------------------------------------
(* Properties of the parsers                                                *)

\* the examples written for blank i of record idx
WrittenFor(idx, i) ==
    {n \in 1..Len(prep.db) : prep.db[n].tag = idx * 20 + i}

\* the candidate list of blank i (0-based) of a record that has candidates
CandidatesOfBlank(data, i) ==
    IF prep.parser = COMPETITION THEN data.candidates ELSE data.candidates[i + 1]

HasCandidates(data) == prep.parser = COMPETITION \/ data.has_candidates

\* C20: every example written by a parser carries no options and label -1, or
\* 7 options and the index of its idiom among them as label; a record with a
\* blank whose candidate list has not 7 entries ends the run in an
\* AssertionError, no example being written for the blank.
C20_OptionCount ==
    prep # <<>> =>
       /\ \A n \in 1..Len(prep.db) :
             \/ prep.db[n].options = <<>> /\ prep.db[n].label = -1
             \/ /\ Len(prep.db[n].options) = 7
                /\ prep.db[n].label >= 0
                /\ prep.db[n].label < 7
                /\ prep.db[n].options[prep.db[n].label + 1] = prep.db[n].idiom
       /\ \A k \in 1..Len(prep.records) :
             \A i \in 0..(Blanks(prep.parser, prep.records[k]) - 1) :
                HasCandidates(prep.records[k])
                  /\ Len(CandidatesOfBlank(prep.records[k], i)) # 7
                  /\ (\A j \in 0..(i - 1) :
                        Len(CandidatesOfBlank(prep.records[k], j)) = 7)
                  => /\ WrittenFor(k - 1, i) = {}
                     /\ prep.raised \in {"AssertionError", "ValueError"}

----------------------------------------------------------------------------
(* Properties of the training script                                        *)

\* the largest val/acc of the validation runs so far
BestObserved ==
    CHOOSE a \in {trainer.evals[n][2] : n \in 1..Len(trainer.evals)} :
        \A n \in 1..Len(trainer.evals) : trainer.evals[n][2] <= a

\* the first global step whose validation reported BestObserved
EarliestBest ==
    trainer.evals[CHOOSE n \in 1..Len(trainer.evals) :
                     /\ trainer.evals[n][2] = BestObserved
                     /\ \A k \in 1..(n - 1) :
                           trainer.evals[k][2] # BestObserved][1]

InTrain == trainer # <<>> /\ trainer.pc \in {"train", "returned"}

\* C21: once a validation has run, best_eval is the largest val/acc observed
\* so far, best_ckpt is the earliest global step at which it was reached (the
\* value train returns), and a checkpoint has been saved at every validation
\* step.
C21_CheckpointSelection ==
    InTrain /\ trainer.evals # <<>> =>
       /\ trainer.best_eval = BestObserved
       /\ trainer.best_ckpt = EarliestBest
       /\ \A n \in 1..Len(trainer.evals) : trainer.evals[n][1] \in trainer.saved

\* C29: the step train returns names a checkpoint saved during the run, a
\* positive multiple of valid_steps not above num_train_steps, so that the
\* file main loads afterwards exists.
C29_BestCheckpointExists ==
    /\ InTrain /\ trainer.pc = "returned" =>
          /\ trainer.best_ckpt \in trainer.saved
          /\ trainer.best_ckpt > 0
          /\ trainer.best_ckpt % trainer.valid_steps = 0
          /\ trainer.best_ckpt <= trainer.num_train_steps
    /\ err # <<"main", "FileNotFoundError">>

\* C24: startup raises exactly when the mode is train and the output
\* directory exists with a non-empty ckpt subdirectory; in the modes eval and
\* infer and for every other state of the directory main is called.
C24_Startup ==
    trainer # <<>> /\ err[1] = "__main__" =>
       (err[2] # "none" <=> trainer.mode = "train" /\ trainer.odir = "full_ckpt")

\* C23 as stated: the gradients are all-reduced after the backward pass of
\* every micro-batch and no optimizer step applies gradients that were not
\* all-reduced.
C23_Original ==
    InTrain => trainer.backward_reduced /\ ~trainer.applied_unsynced

\* C23: the gradients are all-reduced after the backward pass of exactly the
\* micro-batches that end an accumulation group (the number of batches taken
\* from the loader in the epoch is a multiple of
\* gradient_accumulation_steps), that is when the optimizer steps, and no
\* optimizer step applies gradients that were not all-reduced.
C23_AllReduce ==
    InTrain /\ trainer.step > 0 =>
       /\ trainer.backward_reduced <=> trainer.step % trainer.gas = 0
       /\ trainer.unsynced <=> trainer.step % trainer.gas # 0
       /\ ~trainer.applied_unsynced

\* a micro-batch of the second epoch whose backward pass was not followed by
\* an all-reduce, after an optimizer step of the first epoch
C23_Witness ==
    /\ InTrain
    /\ trainer.gas = 2
    /\ trainer.step = 1
    /\ trainer.global_step = 1
    /\ ~trainer.backward_reduced
    /\ trainer.unsynced

\* C25: train eventually returns, global_step being num_train_steps then.
C25_Termination ==
    (trainer # <<>> /\ trainer.pc = "train")
       ~> (trainer.pc = "returned"
             /\ trainer.global_step = trainer.num_train_steps)

----------------------------------------------------------------------------
(* Properties of the validation result files                                *)

\* the number of rows of the combined file equal to row
CombinedCount(row) ==
    Cardinality({k \in 1..Len(files[CombinedFile]) : files[CombinedFile][k] = row})

AllReturned == ranks # <<>> /\ \A r \in Ranks : ranks[r].pc = "returned"

\* C22: once validate has returned on every rank, the combined file holds
\* the rows of every per-rank file, each once, and nothing else.
C22_CombinedResults ==
    AllReturned =>
       /\ CombinedFile \in DOMAIN files
       /\ \A r \in Ranks : \A j \in 1..ranks[r].n :
             CombinedCount(RowsOf(r, ranks[r].n)[j]) = 1
       /\ \A k \in 1..Len(files[CombinedFile]) :
             \E r \in Ranks : \E j \in 1..ranks[r].n :
                files[CombinedFile][k] = RowsOf(r, ranks[r].n)[j]

----------------------------------------------------------------------------
(* Properties of the gather index as an index into the encoder output       *)

\* every entry of the gather index g is an offset into a sequence axis of
\* length S other than offset 0
OffsetsWithin(g, S) ==
    \A n \in 1..Len(g) : \A j \in 1..Len(g[n]) : 1 <= g[n][j] /\ g[n][j] < S

\* C26: every entry of every gather index of a batch, default fill
\* included, is at least 1 and smaller than the padded length S of the
\* batch's sequences.
C26_GatherOffsets ==
    batch # <<>> =>
       IF opts.dataset_cls = MASKED
       THEN /\ OffsetsWithin(batch[1].gather_index[1],
                             Len(batch[1].input_ids[1][1]))
            /\ OffsetsWithin(batch[1].gather_index[2],
                             Len(batch[1].input_ids[2][1]))
       ELSE OffsetsWithin(batch[1].gather_index, Len(batch[1].input_ids[1]))

\* a batch of the masked collator with a span shorter than the widest one:
\* its row of both gather indices ends in default fill
C26_Witness ==
    /\ batch # <<>>
    /\ opts.dataset_cls = MASKED
    /\ Len(fetched) = 2
    /\ fetched[1].idiom_len < fetched[2].idiom_len
    /\ batch[1].gather_index[2][1][fetched[2].idiom_len]
         = fetched[2].idiom_len - 1

----------------------------------------------------------------------------
(* Properties of the pooled span vector across batches                      *)

\* the hidden states of row i at the tokens of the instance's own span
\* [span_start, span_start + width) of channel c, in dimension h
OwnSpanValues(hidden, i, c, h) ==
    {hidden[i][fetched[i].position[c] + k + 1][h] :
        k \in 0..(fetched[i].idiom_len - 1)}

\* every pooled entry is the largest hidden state over the own span
PooledOverOwnSpan(pooled, hidden, c) ==
    \A i \in 1..Len(pooled) : \A h \in 1..HiddenSize :
        /\ pooled[i][h] \in OwnSpanValues(hidden, i, c, h)
        /\ \A v \in OwnSpanValues(hidden, i, c, h) : v <= pooled[i][h]

\* C27: the pooled vector of an instance is the maximum over the
\* instance's own span positions only, whatever the span widths of the
\* other instances of its batch are.
C27_BatchIndependence ==
    outputs # <<>> =>
       IF opts.dataset_cls = MASKED
       THEN \A c \in 1..2 :
               PooledOverOwnSpan(outputs[1].composed_states[c],
                                 outputs[1].encoded[c], c)
       ELSE PooledOverOwnSpan(outputs[1].composed_states[1],
                              outputs[1].encoded[1], 1)

----------------------------------------------------------------------------
(* Properties of the preprocessing tags                                     *)

\* C28: two different (record index, blank index) pairs of one annotation
\* file get different tags, and the instance store holds as many
\* instances as examples were emitted.
C28_UniqueTags ==
    tagged # <<>> =>
       /\ \A a \in tagged.emitted : \A b \in tagged.emitted :
             a # b => tag_str(new_tag_of(a[1], a[2]))
                        # tag_str(new_tag_of(b[1], b[2]))
       /\ Cardinality(DOMAIN tagged.db) = Cardinality(tagged.emitted)

----------------------------------------------------------------------------
(* Properties of the loss configuration                                     *)

\* C30: for both values of use_focal and each of the four model classes, a
\* forward call with compute_loss=True raises nothing and returns one
\* fine-emotion loss and one sentiment loss per example.
C30_LossConfiguration ==
    net # <<>> /\ net.pc = "called" /\ net.out[1].losses =>
       /\ net.out[1].raised = "none"
       /\ Len(net.out[1].fine_emotion_loss) = net.out[1].batch_size
       /\ Len(net.out[1].sentiment_emotion_loss) = net.out[1].batch_size

====
